---------------------------- MODULE Spec2Model ----------------------------
(***************************************************************************)
(* A model of the flash-reader content pipeline (src/stitch_content.py)    *)
(* and of the book life cycle around it (src/app.py).                       *)
(*                                                                         *)
(* Python strings are sequences of one-character strings, so that the      *)
(* regular-expression passes, str.replace, str.split and the JSON decoding *)
(* of the inner payload are computed character by character as the code    *)
(* computes them.                                                          *)
(***************************************************************************)
EXTENDS Integers, Sequences, FiniteSets, TLC

VARIABLES
    raw,        \* clean_text: the argument `text`
    cleaned,    \* clean_text: the returned string
    cpc,        \* clean_text: "ready" before the call, "done" after it
    json_file,  \* stitch_content: the source artifact at json_path
    text_file,  \* stitch_content: the artifact at output_path, [exists, content]
    before,     \* history: text_file when stitch_content was last called
    spc,        \* stitch_content: where the run is
    data,       \* process_json_file: data, sorted
    order,      \* history: the input index of each record of data
    page_i,     \* process_json_file: the page the outer loop is at
    chunk_i,    \* process_json_file: the envelope the inner loop is at
    locals,     \* process_json_file: all_content, current_chapter, ...
    run_content, \* stitch_content: its local content, what process_json_file returned
    outcome,    \* stitch_content: the log line the run ended with
    runs,       \* the number of stitch_content calls so far
    envelope,   \* extract_content_from_response: the argument `response`
    extracted,  \* extract_content_from_response: how the call ended, [exc, val]
    epc,        \* extract_content_from_response: "ready" before the call, "done" after
    at_home,    \* app: whether the working directory is the parent of the
                \* stitcher's default input_dir
    book,       \* app: the row of the book
    pdf_file,   \* app: the file at book.pdf_path
    out_json,   \* app: the file outputs/<name>.json
    artifact,   \* app: the file stitched_content/<name>.txt
    call,       \* app: the process_pdf call in progress
    reply,      \* app: the status of the last response
    parked,     \* app: the process_pdf call of the other request in flight
    other,      \* app: the row and the files of the other user's book
    defaults,   \* app: what get_default_books did for Philosophia Ultima
    earlier,    \* history: the [source, text] of the process_json_file runs
                \* that returned before this one, oldest first
    batch,      \* stitch_content(): the run over every file of input_dir
    chunker     \* chunk_text: the call, [pc, text, max_chunk_size, words, i,
                \* chunks, current_chunk, current_size]

cleanVars == <<raw, cleaned, cpc>>

extractVars == <<envelope, extracted, epc>>

appVars == <<at_home, book, pdf_file, out_json, artifact, call, reply>>

stitchVars == <<json_file, text_file, before, spc, data, order, page_i,
                chunk_i, locals, run_content, outcome, runs>>

sessionVars == <<parked, other, defaults, earlier, batch, chunker>>

vars == <<cleanVars, extractVars, stitchVars, appVars, sessionVars>>

----------------------------------------------------------------------------
(* Characters and character classes (Python's re on str patterns).         *)

Upper == {"A","B","C","D","E","F","G","H","I","J","K","L","M",
          "N","O","P","Q","R","S","T","U","V","W","X","Y","Z"}

Lower == {"a","b","c","d","e","f","g","h","i","j","k","l","m",
          "n","o","p","q","r","s","t","u","v","w","x","y","z"}

Digit == {"0","1","2","3","4","5","6","7","8","9"}

\* \s
WhiteSpace == {" ", "\t", "\n", "\r", "\f"}

\* \w, as \b reads it
WordChar == Upper \cup Lower \cup Digit \cup {"_"}

BackSlash == "\\"

Quote == "\""

NL == "\n"

----------------------------------------------------------------------------
(* String primitives.                                                      *)

Min(S) == CHOOSE x \in S : \A y \in S : x <= y

Max(S) == CHOOSE x \in S : \A y \in S : x >= y

\* s[i:] (1-based, i may be Len(s)+1)
From(s, i) == SubSeq(s, i, Len(s))

\* s.startswith(lit, i-1)
StartsWith(s, i, lit) ==
    /\ i >= 1
    /\ i + Len(lit) - 1 <= Len(s)
    /\ \A k \in 1..Len(lit) : s[i + k - 1] = lit[k]

\* s.find(lit, i-1) + 1: the least index >= i where lit starts, 0 when none
FindLit(s, i, lit) ==
    LET hits == {j \in i..(Len(s) - Len(lit) + 1) : StartsWith(s, j, lit)}
    IN  IF hits = {} THEN 0 ELSE Min(hits)

\* the least index >= i whose character is not in class (Len(s)+1 when none):
\* where a greedy class* that starts at i stops
SkipClass(s, i, class) ==
    LET stops == {j \in i..Len(s) : s[j] \notin class}
    IN  IF stops = {} THEN Len(s) + 1 ELSE Min(stops)

\* the least index >= i that is a newline or the end: where .*?(?=\n|$) stops
LineEnd(s, i) ==
    LET stops == {j \in i..Len(s) : s[j] = NL}
    IN  IF stops = {} THEN Len(s) + 1 ELSE Min(stops)

\* str.replace(lit, rep): leftmost non-overlapping occurrences
RECURSIVE ReplaceLit(_, _, _)
ReplaceLit(s, lit, rep) ==
    LET j == FindLit(s, 1, lit)
    IN  IF j = 0 THEN s
        ELSE SubSeq(s, 1, j - 1) \o rep \o
             ReplaceLit(From(s, j + Len(lit)), lit, rep)

\* re.sub(pattern, rep, s) for a pattern that matches no empty string.
\* M(s, i) is the index after the match that starts at i, or 0 when the
\* pattern does not match at i; the scan is leftmost, non-overlapping.
ReSub(s, M(_, _), rep) ==
    LET out[i \in 1..(Len(s) + 1)] ==
            LET hits == {j \in i..Len(s) : M(s, j) # 0}
            IN  IF hits = {} THEN From(s, i)
                ELSE LET j == Min(hits)
                     IN  SubSeq(s, i, j - 1) \o rep \o out[M(s, j)]
    IN  out[1]

\* the sequences of at most n elements of S
SeqsUpTo(S, n) == UNION {[1..k -> S] : k \in 0..n}

\* the concatenation of a sequence of strings
RECURSIVE Flatten(_)
Flatten(ss) == IF ss = <<>> THEN <<>> ELSE Head(ss) \o Flatten(Tail(ss))

\* str.strip()
Strip(s) ==
    LET keep == {j \in 1..Len(s) : s[j] \notin WhiteSpace}
    IN  IF keep = {} THEN <<>> ELSE SubSeq(s, Min(keep), Max(keep))

----------------------------------------------------------------------------
(* clean_text, src/stitch_content.py:23-46, pass by pass.                  *)

\* the backquote and the backspace, which a TLA+ string cannot hold
BackTick == "<backquote>"

BackSpace == "<backspace>"

LitFence == <<BackTick, BackTick, BackTick>>

LitWordsKey == <<"\"","w","o","r","d","s","\"",":">>

LitPageKey == <<"\"","p","a","g","e","\"",":">>

LitChapterKey == <<"\"","c","h","a","p","t","e","r","\"",":">>

LitContentKey == <<"\"","c","o","n","t","e","n","t","\"",":">>

LitFigure == <<"F","i","g","u","r","e">>

LitListOfFigures == <<"L","i","s","t"," ","o","f"," ","F","i","g","u","r","e","s">>

\* r'(3 backquotes).*?(3 backquotes)' with DOTALL
MatchFence(s, i) ==
    IF ~StartsWith(s, i, LitFence) THEN 0
    ELSE LET j == FindLit(s, i + 3, LitFence)
         IN  IF j = 0 THEN 0 ELSE j + 3

\* r'"words":\s*\[.*?\]' with DOTALL
MatchWords(s, i) ==
    IF ~StartsWith(s, i, LitWordsKey) THEN 0
    ELSE LET k == SkipClass(s, i + Len(LitWordsKey), WhiteSpace)
         IN  IF k > Len(s) \/ s[k] # "[" THEN 0
             ELSE LET j == FindLit(s, k + 1, <<"]">>)
                  IN  IF j = 0 THEN 0 ELSE j + 1

\* r'"page":\s*\d+,?\s*'
MatchPage(s, i) ==
    IF ~StartsWith(s, i, LitPageKey) THEN 0
    ELSE LET k == SkipClass(s, i + Len(LitPageKey), WhiteSpace)
             d == SkipClass(s, k, Digit)
             c == IF d <= Len(s) /\ s[d] = "," THEN d + 1 ELSE d
         IN  IF d = k THEN 0 ELSE SkipClass(s, c, WhiteSpace)

\* r'"chapter":\s*"[^"]*",?\s*'
MatchChapter(s, i) ==
    IF ~StartsWith(s, i, LitChapterKey) THEN 0
    ELSE LET k == SkipClass(s, i + Len(LitChapterKey), WhiteSpace)
         IN  IF k > Len(s) \/ s[k] # Quote THEN 0
             ELSE LET j == FindLit(s, k + 1, <<Quote>>)
                      c == IF j + 1 <= Len(s) /\ s[j + 1] = "," THEN j + 2 ELSE j + 1
                  IN  IF j = 0 THEN 0 ELSE SkipClass(s, c, WhiteSpace)

\* r'"content":\s*"'
MatchContentKey(s, i) ==
    IF ~StartsWith(s, i, LitContentKey) THEN 0
    ELSE LET k == SkipClass(s, i + Len(LitContentKey), WhiteSpace)
         IN  IF k > Len(s) \/ s[k] # Quote THEN 0 ELSE k + 1

\* line 26-31: JSON and markdown artifacts
StripArtifacts(text) ==
    LET t1 == ReSub(text, MatchFence, <<>>)
        t2 == ReSub(t1, MatchWords, <<>>)
        t3 == ReSub(t2, MatchPage, <<>>)
        t4 == ReSub(t3, MatchChapter, <<>>)
        t5 == ReSub(t4, MatchContentKey, <<>>)
        t6 == ReplaceLit(t5, <<Quote, ",">>, <<>>)
        t7 == ReplaceLit(t6, <<Quote, "}">>, <<>>)
        t8 == ReplaceLit(t7, <<"{">>, <<>>)
    IN  ReplaceLit(t8, <<"}">>, <<>>)

\* Unescape without line 35: the remaining backslashes stay
UnescapeListed(text) ==
    LET t1 == ReplaceLit(text, <<BackSlash, "n">>, <<" ">>)
        t2 == ReplaceLit(t1, <<BackSlash, "r">>, <<" ">>)
    IN  ReplaceLit(t2, <<BackSlash, "t">>, <<" ">>)

\* line 34-35: the two-character escapes become a space, backslashes go
Unescape(text) ==
    LET t1 == ReplaceLit(text, <<BackSlash, "n">>, <<" ">>)
        t2 == ReplaceLit(t1, <<BackSlash, "r">>, <<" ">>)
        t3 == ReplaceLit(t2, <<BackSlash, "t">>, <<" ">>)
    IN  ReplaceLit(t3, <<BackSlash>>, <<>>)

\* r'\s+'
MatchSpaces(s, i) ==
    IF s[i] \in WhiteSpace THEN SkipClass(s, i, WhiteSpace) ELSE 0

\* line 36
CollapseSpaces(text) == ReSub(text, MatchSpaces, <<" ">>)

\* $ without MULTILINE: the end, or just before a newline that ends the string
AtDollar(s, i) == i = Len(s) + 1 \/ (i = Len(s) /\ s[i] = NL)

\* r'\b\d+\s*$'
MatchTrailingNumber(s, i) ==
    IF s[i] \notin Digit \/ (i > 1 /\ s[i - 1] \in WordChar) THEN 0
    ELSE LET d == SkipClass(s, i, Digit)
             e == SkipClass(s, d, WhiteSpace)
         IN  IF e = Len(s) + 1 THEN e ELSE 0

\* r'Figure\s+\d+[:.]\s*.*?(?=\n|$)'
MatchFigure(s, i) ==
    IF ~StartsWith(s, i, LitFigure) THEN 0
    ELSE LET w == SkipClass(s, i + Len(LitFigure), WhiteSpace)
             d == SkipClass(s, w, Digit)
         IN  IF w = i + Len(LitFigure) \/ d = w THEN 0
             ELSE IF d > Len(s) \/ s[d] \notin {":", "."} THEN 0
             ELSE LineEnd(s, SkipClass(s, d + 1, WhiteSpace))

\* r'List of Figures.*?(?=\n|$)' with MULTILINE
MatchListOfFigures(s, i) ==
    IF ~StartsWith(s, i, LitListOfFigures) THEN 0
    ELSE LineEnd(s, i + Len(LitListOfFigures))

\* line 39-41: page numbers and figure references
StripPageFurniture(text) ==
    LET t1 == ReSub(text, MatchTrailingNumber, <<>>)
        t2 == ReSub(t1, MatchFigure, <<>>)
    IN  ReSub(t2, MatchListOfFigures, <<>>)

\* r'(\n\n[A-Z][A-Z\s\d]+)\s+\1' at i: the <<end of group 1, index after the
\* match>> pairs the pattern admits; greedy takes the longest group, then the
\* longest \s+
DupChapterSplits(s, i) ==
    IF ~(i + 3 <= Len(s) /\ s[i] = NL /\ s[i + 1] = NL /\ s[i + 2] \in Upper)
    THEN {}
    ELSE {p \in ((i + 3)..Len(s)) \X ((i + 3)..(Len(s) + 1)) :
            LET g == p[1]
                e == p[2]
                w == (e - 1) - g - (g - i + 1)
            IN  /\ \A k \in (i + 3)..g : s[k] \in Upper \cup WhiteSpace \cup Digit
                /\ w >= 1
                /\ \A k \in (g + 1)..(g + w) : s[k] \in WhiteSpace
                /\ SubSeq(s, g + w + 1, e - 1) = SubSeq(s, i, g)}

\* line 44: r'(\n\n[A-Z][A-Z\s\d]+)\s+\1' -> r'\1'
CollapseDupChapter(text) ==
    LET out[i \in 1..(Len(text) + 1)] ==
            LET hits == {j \in i..Len(text) : DupChapterSplits(text, j) # {}}
            IN  IF hits = {} THEN From(text, i)
                ELSE LET j == Min(hits)
                         sp == DupChapterSplits(text, j)
                         g == Max({p[1] : p \in sp})
                         e == Max({p[2] : p \in {q \in sp : q[1] = g}})
                     IN  SubSeq(text, i, g) \o out[e]
    IN  out[1]

\* clean_text
CleanText(text) ==
    Strip(CollapseDupChapter(StripPageFurniture(
        CollapseSpaces(Unescape(StripArtifacts(text))))))

----------------------------------------------------------------------------
(* json.loads on the inner payload (extract_content_from_response, line    *)
(* 60).  A decoded value is [t, s, ct, cs]: its type t, its text s when it *)
(* is a string, and for an object the type ct and text cs of the value of  *)
(* its "content" key ("absent" without one), which is all the code reads.  *)
(* A parse is [ok, next, v]: next is the index after the value.  \uXXXX    *)
(* escapes are outside the modelled alphabet and count as undecodable.     *)

JsonSpace == {" ", "\t", "\n", "\r"}

\* characters below 0x20, which strict decoding refuses inside a string
ControlChar == {"\t", "\n", "\r", "\f", BackSpace}

LitContentName == <<"c","o","n","t","e","n","t">>

JsonValue(t, str, ct, cs) == [t |-> t, s |-> str, ct |-> ct, cs |-> cs]

Scalar(t) == JsonValue(t, <<>>, "absent", <<>>)

ParseFail == [ok |-> FALSE, next |-> 0, v |-> Scalar("null")]

ParseOk(next, v) == [ok |-> TRUE, next |-> next, v |-> v]

\* the number of backslashes that end at index j
BackslashRun(s, j) ==
    LET stops == {k \in 1..j : s[k] # BackSlash}
    IN  IF stops = {} THEN j ELSE j - Max(stops)

\* the quote that closes the string whose body starts at i (0: unterminated):
\* the first quote from i on that an even run of backslashes precedes
ClosingQuote(s, i) ==
    LET run(j) == IF j - 1 < i THEN 0
                  ELSE LET r == BackslashRun(SubSeq(s, i, j - 1), j - i) IN r
        ends == {j \in i..Len(s) : s[j] = Quote /\ run(j) % 2 = 0}
    IN  IF ends = {} THEN 0 ELSE Min(ends)

\* the character an escape letter stands for, <<>> for no JSON escape
EscapeChar(c) ==
    CASE c = Quote -> <<Quote>>
      [] c = BackSlash -> <<BackSlash>>
      [] c = "/" -> <<"/">>
      [] c = "n" -> <<"\n">>
      [] c = "r" -> <<"\r">>
      [] c = "t" -> <<"\t">>
      [] c = "f" -> <<"\f">>
      [] c = "b" -> <<BackSpace>>
      [] OTHER -> <<>>

\* whether index j of b starts an escape: a backslash after an even run
EscapeStart(b, j) == b[j] = BackSlash /\ BackslashRun(b, j - 1) % 2 = 0

\* whether the body of a string literal decodes: no control character, and
\* every backslash starts a JSON escape
BodyDecodes(b) ==
    /\ \A k \in 1..Len(b) : b[k] \notin ControlChar
    /\ \A j \in 1..Len(b) :
          EscapeStart(b, j) => j < Len(b) /\ EscapeChar(b[j + 1]) # <<>>

\* the body of a string literal that decodes, with its escapes replaced
DecodeBody(b) ==
    LET out[i \in 1..(Len(b) + 1)] ==
            LET j == FindLit(b, i, <<BackSlash>>)
            IN  IF j = 0 THEN From(b, i)
                ELSE SubSeq(b, i, j - 1) \o EscapeChar(b[j + 1]) \o out[j + 2]
    IN  out[1]

\* the string value whose literal has the body b and ends at the quote q
StringValue(b, q) ==
    IF ~BodyDecodes(b) THEN ParseFail
    ELSE ParseOk(q + 1, JsonValue("str", DecodeBody(b), "absent", <<>>))

StringUpTo(s, i, q) ==
    IF q = 0 THEN ParseFail ELSE StringValue(SubSeq(s, i + 1, q - 1), q)

\* py_scanstring: s[i] is the opening quote
ParseString(s, i) == StringUpTo(s, i, ClosingQuote(s, i + 1))

\* the index after the integer part (-?(?:0|[1-9]\d*)) at i, 0 when none
IntegerEnd(s, i) ==
    LET a == IF i <= Len(s) /\ s[i] = "-" THEN i + 1 ELSE i
    IN  IF a > Len(s) \/ s[a] \notin Digit THEN 0
        ELSE IF s[a] = "0" THEN a + 1 ELSE SkipClass(s, a, Digit)

\* the index after an optional (\.\d+) at b
FractionEnd(s, b) ==
    IF b + 1 <= Len(s) /\ s[b] = "." /\ s[b + 1] \in Digit
    THEN SkipClass(s, b + 1, Digit) ELSE b

\* the index after an optional ([eE][-+]?\d+) at f
ExponentEnd(s, f) ==
    LET g == IF f + 1 <= Len(s) /\ s[f + 1] \in {"-", "+"} THEN f + 2 ELSE f + 1
    IN  IF f <= Len(s) /\ s[f] \in {"e", "E"} /\ g <= Len(s) /\ s[g] \in Digit
        THEN SkipClass(s, g, Digit) ELSE f

NumberTail(s, b) == IF b = 0 THEN 0 ELSE ExponentEnd(s, FractionEnd(s, b))

\* NUMBER_RE: (-?(?:0|[1-9]\d*))(\.\d+)?([eE][-+]?\d+)?, 0 when no match at i
NumberEnd(s, i) == NumberTail(s, IntegerEnd(s, i))

\* scanner.py _scan_once on a value that is no string, object or array;
\* n is where NUMBER_RE ends
ParseLiteral(s, i, n) ==
    IF StartsWith(s, i, <<"n","u","l","l">>) THEN ParseOk(i + 4, Scalar("null"))
    ELSE IF StartsWith(s, i, <<"t","r","u","e">>) THEN ParseOk(i + 4, Scalar("true"))
    ELSE IF StartsWith(s, i, <<"f","a","l","s","e">>) THEN ParseOk(i + 5, Scalar("false"))
    ELSE IF n # 0 THEN ParseOk(n, Scalar("num"))
    ELSE IF StartsWith(s, i, <<"N","a","N">>) THEN ParseOk(i + 3, Scalar("num"))
    ELSE IF StartsWith(s, i, <<"I","n","f","i","n","i","t","y">>)
         THEN ParseOk(i + 8, Scalar("num"))
    ELSE IF StartsWith(s, i, <<"-","I","n","f","i","n","i","t","y">>)
         THEN ParseOk(i + 9, Scalar("num"))
    ELSE ParseFail

RECURSIVE ParseValue(_, _), ParseMembers(_, _, _, _), ParseElements(_, _)

\* decoder.py JSONObject: after a member's value, at index e
MemberEnd(s, e, ct, cs) ==
    IF e > Len(s) THEN ParseFail
    ELSE IF s[e] = "}" THEN ParseOk(e + 1, JsonValue("obj", <<>>, ct, cs))
    ELSE IF s[e] = "," THEN ParseMembers(s, SkipClass(s, e + 1, JsonSpace), ct, cs)
    ELSE ParseFail

\* the member's value val: it becomes "content" when the key is that name
MemberValue(s, isContent, val, ct, cs) ==
    IF ~val.ok THEN ParseFail
    ELSE MemberEnd(s, SkipClass(s, val.next, JsonSpace),
                   IF isContent THEN val.v.t ELSE ct,
                   IF isContent THEN val.v.s ELSE cs)

\* the colon at index c
MemberColon(s, isContent, c, ct, cs) ==
    IF c > Len(s) \/ s[c] # ":" THEN ParseFail
    ELSE MemberValue(s, isContent, ParseValue(s, SkipClass(s, c + 1, JsonSpace)),
                     ct, cs)

\* the member's key
MemberKey(s, key, ct, cs) ==
    IF ~key.ok THEN ParseFail
    ELSE MemberColon(s, key.v.s = LitContentName,
                     SkipClass(s, key.next, JsonSpace), ct, cs)

\* decoder.py JSONObject from a key at index i on; ct, cs: "content" so far
ParseMembers(s, i, ct, cs) ==
    IF i > Len(s) \/ s[i] # Quote THEN ParseFail
    ELSE MemberKey(s, ParseString(s, i), ct, cs)

\* decoder.py JSONArray: after an element, at index e
ElementEnd(s, e) ==
    IF e > Len(s) THEN ParseFail
    ELSE IF s[e] = "]" THEN ParseOk(e + 1, Scalar("arr"))
    ELSE IF s[e] = "," THEN ParseElements(s, SkipClass(s, e + 1, JsonSpace))
    ELSE ParseFail

ElementValue(s, val) ==
    IF ~val.ok THEN ParseFail ELSE ElementEnd(s, SkipClass(s, val.next, JsonSpace))

\* decoder.py JSONArray from an element at index i on
ParseElements(s, i) == ElementValue(s, ParseValue(s, i))

\* after "{", at index k
ParseObject(s, k) ==
    IF k <= Len(s) /\ s[k] = "}"
    THEN ParseOk(k + 1, JsonValue("obj", <<>>, "absent", <<>>))
    ELSE ParseMembers(s, k, "absent", <<>>)

\* after "[", at index k
ParseArray(s, k) ==
    IF k <= Len(s) /\ s[k] = "]" THEN ParseOk(k + 1, Scalar("arr"))
    ELSE ParseElements(s, k)

\* scanner.py _scan_once at index i
ParseValue(s, i) ==
    IF i > Len(s) THEN ParseFail
    ELSE IF s[i] = Quote THEN ParseString(s, i)
    ELSE IF s[i] = "{" THEN ParseObject(s, SkipClass(s, i + 1, JsonSpace))
    ELSE IF s[i] = "[" THEN ParseArray(s, SkipClass(s, i + 1, JsonSpace))
    ELSE ParseLiteral(s, i, NumberEnd(s, i))

\* decoder.py decode: nothing but white space may follow the value
WholeDocument(s, r) ==
    IF r.ok /\ SkipClass(s, r.next, JsonSpace) = Len(s) + 1 THEN r ELSE ParseFail

\* json.loads(s): ok is FALSE where it raises JSONDecodeError
JsonLoads(s) == WholeDocument(s, ParseValue(s, SkipClass(s, 1, JsonSpace)))

----------------------------------------------------------------------------
(* extract_content_from_response, src/stitch_content.py:48-73.             *)
(*                                                                         *)
(* An envelope is [shape, payload].  The shape says how far the chain      *)
(* response.get("choices", [{}])[0].get("message", {}).get("content", "")  *)
(* of line 51 gets; the payload is the message content when it is a        *)
(* string.  An evaluation is [exc, val]: the exception that leaves it      *)
(* ("none" when it returns) and the value it returns.                      *)

EnvelopeShapes ==
    { "not_a_dict",         \* the envelope is null, a list, a number, a string
      "no_choices",         \* a dict without "choices"
      "choices_null",       \* "choices": null or a number
      "choices_empty",      \* "choices": []
      "choice_not_a_dict",  \* "choices": [null]
      "no_message",         \* "choices": [{}]
      "message_not_a_dict", \* "message": null
      "no_content",         \* "message": {}
      "content_null",       \* "content": null, 0, [], {} or false
      "content_not_a_str",  \* "content": 5, [1], {"a": 1} or true
      "content_str" }       \* "content": "<payload>"

Returns(val) == [exc |-> "none", val |-> val]

Raises(exc) == [exc |-> exc, val |-> <<>>]

\* line 51: the exception Python raises on the chain, or the kind of value
\* message_content gets: "empty" (falsy), "other" (truthy, no str) or "str"
MessageContent(env) ==
    CASE env.shape = "not_a_dict" -> [exc |-> "AttributeError", kind |-> "empty"]
      [] env.shape = "no_choices" -> [exc |-> "none", kind |-> "empty"]
      [] env.shape = "choices_null" -> [exc |-> "TypeError", kind |-> "empty"]
      [] env.shape = "choices_empty" -> [exc |-> "IndexError", kind |-> "empty"]
      [] env.shape = "choice_not_a_dict" -> [exc |-> "AttributeError", kind |-> "empty"]
      [] env.shape = "no_message" -> [exc |-> "none", kind |-> "empty"]
      [] env.shape = "message_not_a_dict" -> [exc |-> "AttributeError", kind |-> "empty"]
      [] env.shape = "no_content" -> [exc |-> "none", kind |-> "empty"]
      [] env.shape = "content_null" -> [exc |-> "none", kind |-> "empty"]
      [] env.shape = "content_not_a_str" -> [exc |-> "none", kind |-> "other"]
      [] env.shape = "content_str" ->
            [exc |-> "none", kind |-> IF env.payload = <<>> THEN "empty" ELSE "str"]

LitFenceJson == LitFence \o <<"j","s","o","n">>

\* the terminator (?:"\s*,|\s*"\s*}) at index e
TerminatorAt(s, e) ==
    \/ /\ s[e] = Quote
       /\ StartsWith(s, SkipClass(s, e + 1, WhiteSpace), <<",">>)
    \/ /\ StartsWith(s, SkipClass(s, e, WhiteSpace), <<Quote>>)
       /\ StartsWith(s, SkipClass(s, SkipClass(s, e, WhiteSpace) + 1, WhiteSpace),
                     <<"}">>)

\* where group 1 of the pattern of line 64 ends when it starts at index k
\* (0: no terminator follows): .*? takes the first index a terminator is at
GroupEnd(s, k) ==
    LET ends == {e \in k..Len(s) : TerminatorAt(s, e)}
    IN  IF k = 0 \/ ends = {} THEN 0 ELSE Min(ends)

\* the match that starts at the least index of starts
FirstMatch(s, starts) ==
    IF starts = {} THEN [found |-> FALSE, group |-> <<>>]
    ELSE [found |-> TRUE,
          group |-> SubSeq(s, MatchContentKey(s, Min(starts)),
                           GroupEnd(s, MatchContentKey(s, Min(starts))) - 1)]

\* line 64: re.search(r'"content":\s*"(.*?)(?:"\s*,|\s*"\s*})', s, DOTALL):
\* [found, group 1]
SearchContent(s) ==
    FirstMatch(s, {i \in 1..Len(s) : GroupEnd(s, MatchContentKey(s, i)) # 0})

\* line 63-66: except json.JSONDecodeError, method 2
RegexExtraction(m) == Returns(<<"str", IF m.found THEN m.group ELSE <<>>>>)

\* line 60-66: r is what json.loads gave.  The evaluation's val is
\* <<type of content, content>>.
ContentOf(payload, r) ==
    IF ~r.ok THEN RegexExtraction(SearchContent(payload))
    ELSE IF r.v.t # "obj" THEN Raises("AttributeError")      \* no .get
    ELSE IF r.v.ct = "absent" THEN Returns(<<"str", <<>>>>)
    ELSE Returns(<<r.v.ct, r.v.cs>>)

\* line 60: the code fence markers removed
StripFenceMarkers(payload) ==
    ReplaceLit(ReplaceLit(payload, LitFenceJson, <<>>), LitFence, <<>>)

\* line 59-66: method 1 and method 2
DecodeContent(kind, payload) ==
    IF kind # "str" THEN Raises("AttributeError")            \* no .replace
    ELSE ContentOf(payload, JsonLoads(StripFenceMarkers(payload)))

\* line 69: clean_text on what was extracted
CleanExtracted(c) ==
    IF c.exc # "none" THEN c
    ELSE IF c.val[1] # "str" THEN Raises("TypeError")       \* re.sub on no str
    ELSE Returns(CleanText(c.val[2]))

\* line 52-69: after line 51 gave mc
ExtractFrom(env, mc) ==
    IF mc.exc # "none" THEN Raises(mc.exc)
    ELSE IF mc.kind = "empty" THEN Returns(<<>>)
    ELSE CleanExtracted(DecodeContent(mc.kind, env.payload))

\* line 51-69: the body of the outer try
ExtractBody(env) == ExtractFrom(env, MessageContent(env))

\* the exceptions `except Exception` (line 71) catches
CaughtByExtract == {"AttributeError", "TypeError", "IndexError", "KeyError",
                    "JSONDecodeError"}

\* ExtractHandler without the handler of line 71
Reraise(r) == r

\* line 71-73: the outer handler
ExtractHandler(r) == IF r.exc \in CaughtByExtract THEN Returns(<<>>) ELSE r

\* extract_content_from_response
ExtractContent(env) == ExtractHandler(ExtractBody(env))

----------------------------------------------------------------------------
(* process_json_file, src/stitch_content.py:75-127: the steps of its loop  *)
(* as operators on its local variables.                                    *)

LitChapter == <<"C","H","A","P","T","E","R">>

\* HeadingTail without the leading [A-Z]: [A-Z\s\d-]+$ from index i
HeadingTailAny(s, i) ==
    /\ i <= Len(s)
    /\ \E e \in {Len(s), Len(s) + 1} :
          /\ e >= i + 1
          /\ AtDollar(s, e)
          /\ \A k \in i..(e - 1) :
                s[k] \in Upper \cup WhiteSpace \cup Digit \cup {"-"}

\* [A-Z][A-Z\s\d-]+$ from index i
HeadingTail(s, i) ==
    /\ i <= Len(s)
    /\ s[i] \in Upper
    /\ \E e \in {Len(s), Len(s) + 1} :
          /\ e >= i + 2
          /\ AtDollar(s, e)
          /\ \A k \in (i + 1)..(e - 1) :
                s[k] \in Upper \cup WhiteSpace \cup Digit \cup {"-"}

\* line 96: re.match(r'^(?:CHAPTER\s+\d+:?\s*)?[A-Z][A-Z\s\d-]+$', content)
IsHeading(content) ==
    LET a == SkipClass(content, Len(LitChapter) + 1, WhiteSpace)
        d == SkipClass(content, a, Digit)
        c == IF d <= Len(content) /\ content[d] = ":" THEN d + 1 ELSE d
        w == SkipClass(content, c, WhiteSpace)
    IN  \/ /\ StartsWith(content, 1, LitChapter)
           /\ a > Len(LitChapter) + 1
           /\ d > a
           /\ HeadingTail(content, w)
        \/ HeadingTail(content, 1)

\* sep.join(parts)
RECURSIVE Join(_, _)
Join(parts, sep) ==
    IF parts = <<>> THEN <<>>
    ELSE IF Len(parts) = 1 THEN parts[1]
    ELSE parts[1] \o sep \o Join(Tail(parts), sep)

\* s.split(sep)
RECURSIVE Split(_, _)
Split(s, sep) ==
    LET j == FindLit(s, 1, sep)
    IN  IF j = 0 THEN <<s>>
        ELSE <<SubSeq(s, 1, j - 1)>> \o Split(From(s, j + Len(sep)), sep)

Range(f) == {f[k] : k \in DOMAIN f}

\* Deduplicate without the test of line 112
KeepAll(sentences, seen) == seen \o sentences

\* line 111-113: the sentences appended to unique_sentences, which holds seen
RECURSIVE Deduplicate(_, _)
Deduplicate(sentences, seen) ==
    IF sentences = <<>> THEN seen
    ELSE LET sentence == Head(sentences)
         IN  IF sentence # <<>> /\ sentence \notin Range(seen)
             THEN Deduplicate(Tail(sentences), Append(seen, sentence))
             ELSE Deduplicate(Tail(sentences), seen)

\* line 84-85 and 91, 110: the locals before the first page.  current_chapter
\* is <<>> for None and <<h>> for the heading h; origin is the history of
\* all_content: for each entry its kind and the input index and number of the
\* page that was being read when it was appended.
InitialLocals ==
    [ all_content      |-> <<>>,
      current_chapter  |-> <<>>,
      page_content     |-> <<>>,
      unique_sentences |-> <<>>,
      origin           |-> <<>> ]

\* a frame that keeps the chapter of the frame before it
KeepChapter(frame) == [InitialLocals EXCEPT !.current_chapter = frame.current_chapter]

\* line 84-85: the names of a call are bound anew, whatever the frame of the
\* call before held; ContentStitcher keeps input_dir and output_dir only
NewFrame(frame) == InitialLocals

\* line 99: f"\n\n{current_chapter}\n\n"
HeadingParagraph(h) == <<NL, NL>> \o h \o <<NL, NL>>

\* line 91: page_content = []
PageStart(st) == [st EXCEPT !.page_content = <<>>]

\* AddFragment with a heading suppressed when it was emitted at any time
\* before, not only as the last one
AddFragmentOnce(st, content, idx, page_number) ==
    IF content = <<>> THEN st
    ELSE IF IsHeading(content)
    THEN IF \A k \in DOMAIN st.all_content :
               st.all_content[k] # HeadingParagraph(content)
         THEN [st EXCEPT
                 !.current_chapter = <<content>>,
                 !.all_content = Append(@, HeadingParagraph(content)),
                 !.origin = Append(@, [kind |-> "heading", idx |-> idx,
                                       page_number |-> page_number])]
         ELSE st
    ELSE [st EXCEPT !.page_content = Append(@, content)]

\* line 94-103: the fragment `content` of one envelope
AddFragment(st, content, idx, page_number) ==
    IF content = <<>> THEN st
    ELSE IF IsHeading(content)
    THEN IF <<content>> # st.current_chapter
         THEN [st EXCEPT
                 !.current_chapter = <<content>>,
                 !.all_content = Append(@, HeadingParagraph(content)),
                 !.origin = Append(@, [kind |-> "heading", idx |-> idx,
                                       page_number |-> page_number])]
         ELSE st
    ELSE [st EXCEPT !.page_content = Append(@, content)]

\* line 93-103: one pass of the loop over deepseek_outputs
ChunkStep(st, chunk_response, idx, page_number) ==
    AddFragment(st, ExtractContent(chunk_response).val, idx, page_number)

\* SeenAtPageStart with line 110 moved out of the loop over the pages
SeenCarried(st) == st.unique_sentences

\* line 110: unique_sentences = []
SeenAtPageStart(st) == <<>>

\* AppendBody with the paragraph put in front of all that was emitted
InsertBodyFirst(st, unique, idx, page_number) ==
    [st EXCEPT
        !.unique_sentences = unique,
        !.all_content = <<Join(unique, <<".", " ">>)>> \o @,
        !.origin = <<[kind |-> "body", idx |-> idx,
                      page_number |-> page_number]>> \o @]

\* line 114-116: the page's paragraph
AppendBody(st, unique, idx, page_number) ==
    [st EXCEPT
        !.unique_sentences = unique,
        !.all_content = Append(@, Join(unique, <<".", " ">>)),
        !.origin = Append(@, [kind |-> "body", idx |-> idx,
                              page_number |-> page_number])]

\* line 107-113: the deduplicated sentences of the page
UniqueSentences(st) ==
    Deduplicate(Split(Join(st.page_content, <<" ">>), <<".", " ">>),
                SeenAtPageStart(st))

\* PageEnd without the test of line 105
PageEndAlways(st, idx, page_number) ==
    AppendBody(st, UniqueSentences(st), idx, page_number)

\* line 105-116: after the last envelope of a page
PageEnd(st, idx, page_number) ==
    IF st.page_content = <<>> THEN st
    ELSE AppendBody(st, UniqueSentences(st), idx, page_number)

\* MatchNewlines for a pattern that matches nowhere: line 120 left out
MatchNoNewlines(s, i) == 0

\* r'\n{3,}'
MatchNewlines(s, i) ==
    LET e == SkipClass(s, i, {NL})
    IN  IF e - i >= 3 THEN e ELSE 0

\* r'(?<=[.!?])\s+(?=[A-Z])'
MatchParagraphBreak(s, i) ==
    IF i = 1 \/ s[i - 1] \notin {".", "!", "?"} \/ s[i] \notin WhiteSpace THEN 0
    ELSE LET e == SkipClass(s, i, WhiteSpace)
         IN  IF e <= Len(s) /\ s[e] \in Upper THEN e ELSE 0

\* line 119-123: the final cleanup
Finalize(all_content) ==
    LET t1 == Join(all_content, <<NL, NL>>)
        t2 == ReSub(t1, MatchNewlines, <<NL, NL>>)
        t3 == ReSub(t2, MatchParagraphBreak, <<NL, NL>>)
    IN  Strip(t3)

----------------------------------------------------------------------------
(* The source artifact and process_json_file as a whole.                   *)
(*                                                                         *)
(* A source file is [kind, pages]: "missing" (open raises), "invalid_json" *)
(* (json.load raises), "not_a_list" (data.sort raises) or "pages", a list  *)
(* of page records [has_page_number, page_number, has_output,              *)
(* deepseek_output].  The outer JSON document is decoded structurally; the *)
(* inner payload of each envelope is decoded character by character.       *)

PageRecord(n, outputs) ==
    [has_page_number |-> TRUE, page_number |-> n,
     has_output |-> TRUE, deepseek_output |-> outputs]

PagesFile(pages) == [kind |-> "pages", pages |-> pages]

BrokenFile(kind) == [kind |-> kind, pages |-> <<>>]

\* the index sequence `order` with k inserted after every index whose page
\* number is not greater (list.sort is stable)
RECURSIVE InsertByPageNumber(_, _, _)
InsertByPageNumber(pages, sorted, k) ==
    IF sorted = <<>> THEN <<k>>
    ELSE IF pages[Head(sorted)].page_number <= pages[k].page_number
         THEN <<Head(sorted)>> \o InsertByPageNumber(pages, Tail(sorted), k)
         ELSE <<k>> \o sorted

RECURSIVE SortPrefix(_, _)
SortPrefix(pages, n) ==
    IF n = 0 THEN <<>>
    ELSE InsertByPageNumber(pages, SortPrefix(pages, n - 1), n)

\* SortOrder without the sort: the input order
InputOrder(pages) == [k \in 1..Len(pages) |-> k]

\* line 82: data.sort(key=lambda x: x["page_number"]), as the input indices in
\* sorted order
SortOrder(pages) == SortPrefix(pages, Len(pages))

\* line 78-82: the exception that ends the run before the loop, or "none"
LoadError(file) ==
    CASE file.kind = "missing" -> "FileNotFoundError"
      [] file.kind = "invalid_json" -> "JSONDecodeError"
      [] file.kind = "not_a_list" -> "AttributeError"
      [] OTHER -> IF \E k \in DOMAIN file.pages : ~file.pages[k].has_page_number
                  THEN "KeyError" ELSE "none"

\* line 92-103: the inner loop from envelope c on.  The locals after each
\* pass are bound by a quantifier, so that they are a value, not a pending
\* evaluation, when the next pass starts.
RECURSIVE ChunkLoop(_, _, _, _, _)
ChunkLoop(st, outputs, c, idx, page_number) ==
    IF c > Len(outputs) THEN st
    ELSE CHOOSE r \in {ChunkLoop(next, outputs, c + 1, idx, page_number) :
                       next \in {ChunkStep(st, outputs[c], idx, page_number)}} :
                TRUE

\* line 88-116: one pass of the outer loop
PageStep(st, page, idx) ==
    PageEnd(ChunkLoop(PageStart(st), page.deepseek_output, 1, idx,
                      page.page_number),
            idx, page.page_number)

\* line 87-116: the outer loop from page p on: [exc, st]
RECURSIVE PageLoop(_, _, _, _)
PageLoop(st, pages, ord, p) ==
    IF p > Len(ord) THEN [exc |-> "none", st |-> st]
    ELSE IF ~pages[ord[p]].has_output THEN [exc |-> "KeyError", st |-> st]
    ELSE CHOOSE r \in {PageLoop(next, pages, ord, p + 1) :
                       next \in {PageStep(st, pages[ord[p]], ord[p])}} : TRUE

\* line 117-123: what the try returns or raises after the loop gave r
AfterLoop(r) ==
    IF r.exc # "none" THEN Raises(r.exc)
    ELSE Returns(Finalize(r.st.all_content))

\* line 77-123: the body of the try: [exc, val]
ProcessBody(file) ==
    IF LoadError(file) # "none" THEN Raises(LoadError(file))
    ELSE AfterLoop(PageLoop(InitialLocals, file.pages, SortOrder(file.pages), 1))

\* the exceptions `except Exception` (line 125) catches
CaughtByProcess == {"FileNotFoundError", "JSONDecodeError", "AttributeError",
                    "TypeError", "KeyError", "IndexError"}

\* line 125-127: the handler of the try
ProcessHandler(r) == IF r.exc \in CaughtByProcess THEN Returns(<<>>) ELSE r

\* process_json_file: [exc, val]
ProcessJsonFile(file) == ProcessHandler(ProcessBody(file))

\* ShouldWrite without the test of line 146
AlwaysWrite(text) == TRUE

\* line 146: if content
ShouldWrite(text) == text # <<>>

----------------------------------------------------------------------------
(* The inputs of the stitching machine.                                    *)

TextChapterOne ==
    <<"C","H","A","P","T","E","R"," ","1",":"," ",
      "I","N","T","R","O","D","U","C","T","I","O","N">>

TextPartTwo == <<"P","A","R","T"," ","T","W","O">>

TextHello == <<"H","e","l","l","o"," ","w","o","r","l","d",".">>

TextHelloTwice == TextHello \o <<" ">> \o TextHello \o <<" ","D","o","n","e",".">>

TextDots == <<"W","a","i","t","."," ","."," ","."," ","w","h","a","t">>

TextOld == <<"O","l","d"," ","t","e","x","t",".">>

\* an envelope whose payload is the object {"content": "<text>"}
Envelope(text) ==
    [shape |-> "content_str",
     payload |-> <<"{">> \o LitContentKey \o <<" ", Quote>> \o text \o <<Quote, "}">>]

\* an envelope whose payload is cut off after the content value
TruncatedEnvelope(text) ==
    [shape |-> "content_str",
     payload |-> <<"{">> \o LitContentKey \o <<" ", Quote>> \o text
                 \o <<Quote, ",", " ", Quote, "p", "a">>]

\* an envelope without a choice: "choices": []
EmptyEnvelope == [shape |-> "choices_empty", payload |-> <<>>]

\* envelopes that yield headings and a body
HeadingEnvelopes ==
    {Envelope(TextChapterOne), Envelope(TextPartTwo), Envelope(TextHelloTwice)}

\* envelopes that yield bodies with repeated and empty segments, and nothing
BodyEnvelopes ==
    {Envelope(TextHelloTwice), TruncatedEnvelope(TextDots), EmptyEnvelope}

\* the most envelopes a document of ChunkDocs holds
MaxEnvelopes == 3

\* the most pages a document of OrderDocs holds, and its largest page number
MaxPages == 3

\* the stitch_content calls one behaviour makes
MaxRuns == 1

\* the pages of the envelopes es, a page ending after each index in breaks,
\* numbered from 1 in input order
RECURSIVE GroupPages(_, _, _, _)
GroupPages(es, breaks, i, cur) ==
    IF i > Len(es) THEN <<>>
    ELSE IF i \in breaks \/ i = Len(es)
         THEN <<Append(cur, es[i])>> \o GroupPages(es, breaks, i + 1, <<>>)
         ELSE GroupPages(es, breaks, i + 1, Append(cur, es[i]))

NumberPages(groups) == [k \in 1..Len(groups) |-> PageRecord(k, groups[k])]

\* every split into pages of every sequence of up to MaxEnvelopes envelopes
SplitDocs(envelopes) ==
    {PagesFile(NumberPages(GroupPages(es, breaks, 1, <<>>))) :
        es \in SeqsUpTo(envelopes, MaxEnvelopes),
        breaks \in SUBSET (1..(MaxEnvelopes - 1))}

ChunkDocs == SplitDocs(HeadingEnvelopes) \cup SplitDocs(BodyEnvelopes)

\* one-envelope pages in every order of every choice of page numbers
OrderDocs ==
    {PagesFile(ps) :
        ps \in SeqsUpTo({PageRecord(n, <<Envelope(TextHelloTwice)>>) : n \in 1..MaxPages},
                        MaxPages)}

\* unreadable and malformed sources, and pages without envelopes
OddDocs ==
    { BrokenFile("missing"), BrokenFile("invalid_json"), BrokenFile("not_a_list"),
      PagesFile(<<[PageRecord(1, <<>>) EXCEPT !.has_page_number = FALSE]>>),
      PagesFile(<<PageRecord(1, <<Envelope(TextHello)>>),
                  [PageRecord(2, <<>>) EXCEPT !.has_output = FALSE]>>),
      PagesFile(<<PageRecord(2, <<Envelope(TextHello)>>), PageRecord(1, <<>>)>>),
      PagesFile(<<PageRecord(1, <<>>)>>) }

\* the most pieces a fragment of ProbeDocs is built from
MaxProbeAtoms == 3

\* the pieces of fragments put to the heading test
ProbeAtoms ==
    { <<"A">>, <<"7">>, <<"-">>, <<" ">>, <<"b">>,
      <<"C","H","A","P","T","E","R"," ","1",":"," ">> }

\* one page with one envelope whose content is built from ProbeAtoms
ProbeDocs ==
    {PagesFile(<<PageRecord(1, <<Envelope(Flatten(b))>>)>>) :
        b \in SeqsUpTo(ProbeAtoms, MaxProbeAtoms)}

SourceFiles == ChunkDocs \cup OrderDocs \cup OddDocs

NoFile == [exists |-> FALSE, content |-> <<>>]

File(text) == [exists |-> TRUE, content |-> text]

----------------------------------------------------------------------------
(* The stitching machine: stitch_content(json_filename) on one source,     *)
(* src/stitch_content.py:129-158, with process_json_file's loop in steps.  *)

StitchIdle ==
    /\ json_file = BrokenFile("missing")
    /\ text_file = NoFile /\ before = NoFile
    /\ spc = "idle" /\ data = <<>> /\ order = <<>>
    /\ page_i = 0 /\ chunk_i = 0
    /\ locals = InitialLocals /\ run_content = <<>>
    /\ outcome = "none" /\ runs = 0

CleanIdle == raw = <<>> /\ cleaned = <<>> /\ cpc = "off"

ExtractIdle ==
    /\ envelope = [shape |-> "no_choices", payload |-> <<>>]
    /\ extracted = Returns(<<>>)
    /\ epc = "off"

\* no row: Book.query.get(book_id) is None
NoBook ==
    [exists |-> FALSE, processing_status |-> "none", text_path |-> "none",
     word_count |-> 0]

\* no process_pdf call in progress.  by is the caller, result what the call
\* returns; stitched, source_error and source_pages are history: whether the
\* call reached line 164, what json.load and the sort of that run met, and
\* whether writing the artifact raised.
NoCall ==
    [pc |-> "idle", by |-> "none", result |-> FALSE, stitched |-> FALSE,
     source_error |-> "none", source_pages |-> 0, write_failed |-> FALSE]

AppIdle ==
    /\ at_home = FALSE
    /\ book = NoBook
    /\ pdf_file = [exists |-> FALSE, readable |-> FALSE, pages |-> <<>>]
    /\ out_json = BrokenFile("missing")
    /\ artifact = NoFile
    /\ call = NoCall
    /\ reply = "none"

\* no PDF at the path
NoPdf == [exists |-> FALSE, readable |-> FALSE, pages |-> <<>>]

\* no other user's book.  same_name: whether the other user's upload has the
\* file name of this user's upload
NoOther ==
    [book |-> NoBook, pdf_file |-> NoPdf, out_json |-> BrokenFile("missing"),
     artifact |-> NoFile, same_name |-> TRUE]

\* get_default_books has not looked for Philosophia Ultima.  stitched: line
\* 263 ran; write_path, look_path: where stitch_content wrote and where
\* line 265 looked; row: the book was added
NoDefaults ==
    [stitched |-> FALSE, write_path |-> <<>>, look_path |-> <<>>, row |-> FALSE]

\* no stitch_content() call over the directory.  files: the sources in
\* listdir order, each with whether its output can be written; i: the file
\* the loop is at; written: the indices whose output was written
\* no stitch_content call over a directory: files are the .json files of
\* input_dir, each with whether its output_path can be opened for writing
NoBatch == [pc |-> "off", files |-> <<>>, i |-> 0, written |-> {}, raised |-> FALSE]

\* no chunk_text call
NoChunker ==
    [pc |-> "off", text |-> <<>>, max_chunk_size |-> 0, words |-> <<>>, i |-> 0,
     chunks |-> <<>>, current_chunk |-> <<>>, current_size |-> 0]

SessionIdle ==
    /\ parked = NoCall
    /\ other = NoOther
    /\ defaults = NoDefaults
    /\ earlier = <<>>
    /\ batch = NoBatch
    /\ chunker = NoChunker

StitchInit ==
    /\ json_file \in SourceFiles
    /\ text_file \in {NoFile, File(TextOld)}
    /\ before = text_file
    /\ spc = "idle" /\ data = <<>> /\ order = <<>>
    /\ page_i = 0 /\ chunk_i = 0
    /\ locals = InitialLocals /\ run_content = <<>>
    /\ outcome = "none" /\ runs = 0
    /\ CleanIdle /\ ExtractIdle /\ AppIdle /\ SessionIdle

\* process_json_file ends with `text` returned to line 144
ReturnToStitch(text) ==
    /\ run_content' = text
    /\ spc' = "returned"

\* line 132-144 and 77-85: the call, json.load, the sort
StitchCall ==
    /\ spc = "idle" /\ runs < MaxRuns
    /\ runs' = runs + 1
    /\ before' = text_file
    /\ outcome' = "none"
    /\ locals' = NewFrame(locals)
    /\ IF LoadError(json_file) # "none"
       THEN /\ ReturnToStitch(<<>>)
            /\ data' = <<>> /\ order' = <<>> /\ page_i' = 0
       ELSE /\ order' = SortOrder(json_file.pages)
            /\ data' = [k \in 1..Len(json_file.pages) |->
                            json_file.pages[SortOrder(json_file.pages)[k]]]
            /\ page_i' = 1
            /\ spc' = "page"
            /\ run_content' = <<>>
    /\ chunk_i' = 0
    /\ UNCHANGED <<cleanVars, extractVars, appVars, sessionVars>>
    /\ UNCHANGED <<json_file, text_file>>

\* line 87-91: the next page_data, or the end of the loop
NextPage ==
    /\ spc = "page" /\ page_i <= Len(data)
    /\ IF ~data[page_i].has_output
       THEN /\ ReturnToStitch(<<>>)
            /\ UNCHANGED <<locals, chunk_i>>
       ELSE /\ locals' = PageStart(locals)
            /\ chunk_i' = 1
            /\ spc' = "chunk"
            /\ UNCHANGED run_content
    /\ UNCHANGED <<cleanVars, extractVars, appVars, sessionVars>>
    /\ UNCHANGED <<json_file, text_file, before, data, order, page_i, outcome, runs>>

\* line 92-103: one envelope
Chunk ==
    /\ spc = "chunk" /\ chunk_i <= Len(data[page_i].deepseek_output)
    /\ locals' = ChunkStep(locals, data[page_i].deepseek_output[chunk_i],
                           order[page_i], data[page_i].page_number)
    /\ chunk_i' = chunk_i + 1
    /\ UNCHANGED <<cleanVars, extractVars, appVars, sessionVars>>
    /\ UNCHANGED <<json_file, text_file, before, spc, data, order, page_i,
                   run_content, outcome, runs>>

\* line 105-116: the page's paragraph
EndPage ==
    /\ spc = "chunk" /\ chunk_i > Len(data[page_i].deepseek_output)
    /\ locals' = PageEnd(locals, order[page_i], data[page_i].page_number)
    /\ page_i' = page_i + 1
    /\ spc' = "page"
    /\ UNCHANGED <<cleanVars, extractVars, appVars, sessionVars>>
    /\ UNCHANGED <<json_file, text_file, before, data, order, chunk_i,
                   run_content, outcome, runs>>

\* line 118-123: the final cleanup and the return
Finish ==
    /\ spc = "page" /\ page_i > Len(data)
    /\ ReturnToStitch(Finalize(locals.all_content))
    /\ UNCHANGED <<cleanVars, extractVars, appVars, sessionVars>>
    /\ UNCHANGED <<json_file, text_file, before, data, order, page_i, chunk_i,
                   locals, outcome, runs>>

\* line 146-155: the artifact is written, or the warning is logged
WriteOrWarn ==
    /\ spc = "returned"
    /\ IF ShouldWrite(run_content)
       THEN text_file' = File(run_content) /\ outcome' = "saved"
       ELSE text_file' = text_file /\ outcome' = "no_content"
    /\ spc' = "idle"
    /\ UNCHANGED <<cleanVars, extractVars, appVars, sessionVars>>
    /\ UNCHANGED <<json_file, before, data, order, page_i, chunk_i, locals,
                   run_content, runs>>

StitchNext == StitchCall \/ NextPage \/ Chunk \/ EndPage \/ Finish \/ WriteOrWarn

SpecStitch == StitchInit /\ [][StitchNext]_vars

\* a run over a source of ProbeDocs
ProbeInit ==
    /\ json_file \in ProbeDocs
    /\ text_file \in {NoFile, File(TextOld)}
    /\ before = text_file
    /\ spc = "idle" /\ data = <<>> /\ order = <<>>
    /\ page_i = 0 /\ chunk_i = 0
    /\ locals = InitialLocals /\ run_content = <<>>
    /\ outcome = "none" /\ runs = 0
    /\ CleanIdle /\ ExtractIdle /\ AppIdle /\ SessionIdle

SpecProbe == ProbeInit /\ [][StitchNext]_vars

----------------------------------------------------------------------------
(* The clean_text machine: one call on one input.                          *)

\* the number of atoms a clean_text input is built from
MaxCleanAtoms == 4

CleanBodyAtoms ==
    { <<"T","h","e"," ","c","a","t"," ","s","a","t",".">>,
      <<"I","t"," ","s","l","e","p","t",".">>,
      <<BackSlash, "n">>,
      <<BackSlash, "t">>,
      <<" ">> }

\* the characters and pieces any string handed to clean_text is built from
CleanRawAtoms ==
    { <<"{">>, <<"}">>, <<BackSlash>>, <<"n">>, <<NL>>, <<" ">>, <<Quote>>,
      <<"7">>, <<"A">> }

\* "content": "<body>", the shape of a fallback-extracted fragment, and
\* every string of CleanRawAtoms
CleanInputs ==
    {LitContentKey \o <<" ", Quote>> \o Flatten(b) \o <<Quote>> :
        b \in SeqsUpTo(CleanBodyAtoms, MaxCleanAtoms)}
    \cup {Flatten(b) : b \in SeqsUpTo(CleanRawAtoms, MaxCleanAtoms)}

CleanInit ==
    /\ raw \in CleanInputs
    /\ cleaned = <<>>
    /\ cpc = "ready"
    /\ StitchIdle /\ ExtractIdle /\ AppIdle /\ SessionIdle

CleanCall ==
    /\ cpc = "ready"
    /\ cleaned' = CleanText(raw)
    /\ cpc' = "done"
    /\ UNCHANGED raw
    /\ UNCHANGED <<extractVars, stitchVars, appVars, sessionVars>>

CleanNext == CleanCall

SpecClean == CleanInit /\ [][CleanNext]_vars

----------------------------------------------------------------------------
(* The extraction machine: one extract_content_from_response call on one   *)
(* envelope.                                                               *)

\* the number of atoms an inner payload is built from
MaxPayloadAtoms == 3

TextPartial == <<"p","a","r","t","i","a","l"," ","t","e","x","t"," ","h","e","r","e">>

\* {"content": "partial text here
TruncatedPayload == <<"{">> \o LitContentKey \o <<" ", Quote>> \o TextPartial

PayloadAtoms ==
    { TruncatedPayload,
      <<"{">> \o LitContentKey \o <<" ">>,      \* {"content":
      <<Quote>>,
      <<"}">>,
      <<",", " ", Quote, "p", "a">>,            \* , "pa
      <<"5">>,
      <<"[", "1", "]">>,
      <<BackSlash, Quote>> }

\* every envelope shape, and under content_str every payload of the atoms
ExtractInputs ==
    {[shape |-> sh, payload |-> <<>>] : sh \in EnvelopeShapes}
    \cup {[shape |-> "content_str", payload |-> Flatten(b)] :
             b \in SeqsUpTo(PayloadAtoms, MaxPayloadAtoms)}

ExtractInit ==
    /\ envelope \in ExtractInputs
    /\ extracted = Returns(<<>>)
    /\ epc = "ready"
    /\ CleanIdle /\ StitchIdle /\ AppIdle /\ SessionIdle

\* the call.  What leaves it is kept as it is: an exception the handler of
\* line 71 does not catch is in extracted.exc.
ExtractCall ==
    /\ epc = "ready"
    /\ extracted' = ExtractContent(envelope)
    /\ epc' = "done"
    /\ UNCHANGED envelope
    /\ UNCHANGED <<cleanVars, stitchVars, appVars, sessionVars>>

ExtractNext == ExtractCall

SpecExtract == ExtractInit /\ [][ExtractNext]_vars

----------------------------------------------------------------------------
(* The book life cycle, src/app.py: upload_file, get_book_content and      *)
(* process_pdf on one book, and the files of that book.                    *)

\* json.encoder ESCAPE_ASCII on one character
EncodeChar(c) ==
    CASE c = Quote -> <<BackSlash, Quote>>
      [] c = BackSlash -> <<BackSlash, BackSlash>>
      [] c = "\n" -> <<BackSlash, "n">>
      [] c = "\r" -> <<BackSlash, "r">>
      [] c = "\t" -> <<BackSlash, "t">>
      [] c = "\f" -> <<BackSlash, "f">>
      [] c = BackSpace -> <<BackSlash, "b">>
      [] OTHER -> <<c>>

\* json.dumps(s) of a str
DumpString(s) ==
    <<Quote>> \o Flatten([k \in 1..Len(s) |-> EncodeChar(s[k])]) \o <<Quote>>

\* the index after the word that starts at a
WordEnd(s, a) ==
    LET stops == {j \in a..Len(s) : s[j] \in WhiteSpace}
    IN  IF stops = {} THEN Len(s) + 1 ELSE Min(stops)

RECURSIVE WordsFrom(_, _)

WordsUpTo(s, a, b) == <<SubSeq(s, a, b - 1)>> \o WordsFrom(s, b)

\* the words of s from index i on
WordsFrom(s, i) ==
    IF SkipClass(s, i, WhiteSpace) > Len(s) THEN <<>>
    ELSE WordsUpTo(s, SkipClass(s, i, WhiteSpace),
                   WordEnd(s, SkipClass(s, i, WhiteSpace)))

\* s.split()
Words(s) == WordsFrom(s, 1)

\* line 110 and 171: len(content.split())
WordCount(s) == Len(Words(s))

DigitChars == <<"0","1","2","3","4","5","6","7","8","9">>

\* json.dumps(n) of an int n >= 0
RECURSIVE DumpInt(_)
DumpInt(n) ==
    IF n < 10 THEN <<DigitChars[n + 1]>>
    ELSE DumpInt(n \div 10) \o <<DigitChars[(n % 10) + 1]>>

\* json.dumps of a list of str
DumpWords(ws) ==
    <<"[">> \o Join([k \in 1..Len(ws) |-> DumpString(ws[k])], <<",", " ">>)
    \o <<"]">>

\* line 131-136: json.dumps({"content": text, "page": n, "chapter": "",
\* "words": text.split()})
DumpPage(text, n) ==
    <<"{">> \o LitContentKey \o <<" ">> \o DumpString(text)
    \o <<",", " ">> \o LitPageKey \o <<" ">> \o DumpInt(n)
    \o <<",", " ">> \o LitChapterKey \o <<" ", Quote, Quote>>
    \o <<",", " ">> \o LitWordsKey \o <<" ">> \o DumpWords(Words(text))
    \o <<"}">>

\* line 124-147: the page records of the document whose pages have the texts
PagesData(texts) ==
    [k \in 1..Len(texts) |->
        PageRecord(k, <<[shape |-> "content_str", payload |-> DumpPage(texts[k], k)]>>)]

\* the most pages an uploaded PDF holds
MaxPdfPages == 2

TextQuoted ==
    <<"S","a","y"," ",Quote,"h","i",Quote,".","\n","B","y","e",".","\n">>

\* what page.get_text() gives: a blank page, a heading, body text
PdfTexts == {<<>>, TextChapterOne \o <<NL>>, TextHello \o <<NL>>, TextQuoted}

\* an uploaded file: one fitz opens, or one it refuses
PdfFiles ==
    {[exists |-> TRUE, readable |-> TRUE, pages |-> t] :
        t \in SeqsUpTo(PdfTexts, MaxPdfPages)}
    \cup {[exists |-> TRUE, readable |-> FALSE, pages |-> <<>>]}

AppInit ==
    /\ at_home \in BOOLEAN
    /\ book = NoBook
    /\ pdf_file = [exists |-> FALSE, readable |-> FALSE, pages |-> <<>>]
    /\ out_json = BrokenFile("missing")
    /\ artifact = NoFile
    /\ call = NoCall
    /\ reply = "none"
    /\ CleanIdle /\ ExtractIdle /\ StitchIdle /\ SessionIdle

\* process_pdf(book.id) is entered
Enter(caller) == call' = [NoCall EXCEPT !.pc = "begin", !.by = caller]

\* line 348-390: /upload saves the PDF, adds the row and calls process_pdf
UploadFile ==
    /\ call.pc = "idle" /\ ~book.exists
    /\ \E f \in PdfFiles : pdf_file' = f
    /\ book' = [exists |-> TRUE, processing_status |-> "pending",
                text_path |-> "none", word_count |-> 0]
    /\ Enter("upload_file")
    /\ reply' = "none"
    /\ UNCHANGED <<at_home, out_json, artifact>>
    /\ UNCHANGED <<cleanVars, extractVars, stitchVars, sessionVars>>

\* line 407-428: /api/book/<id>/content up to the process_pdf call, or to the
\* response when there is no call
GetBookContent ==
    /\ call.pc = "idle"
    /\ IF ~book.exists THEN reply' = "404" /\ UNCHANGED call
       ELSE IF book.text_path = "none" \/ ~artifact.exists
       THEN IF pdf_file.exists
            THEN Enter("get_book_content") /\ reply' = "none"
            ELSE reply' = "404" /\ UNCHANGED call
       ELSE reply' = "200" /\ UNCHANGED call
    /\ UNCHANGED <<at_home, book, pdf_file, out_json, artifact>>
    /\ UNCHANGED <<cleanVars, extractVars, stitchVars, sessionVars>>

\* line 82-90: the row is found and its status set
Begin ==
    /\ call.pc = "begin"
    /\ book' = [book EXCEPT !.processing_status = "processing"]
    /\ call' = [call EXCEPT !.pc = "check"]
    /\ UNCHANGED <<at_home, pdf_file, out_json, artifact, reply>>
    /\ UNCHANGED <<cleanVars, extractVars, stitchVars, sessionVars>>

\* Fail without lines 185 and 191: the status is left as it is
FailQuietly ==
    /\ call' = [call EXCEPT !.pc = "return", !.result = FALSE]
    /\ UNCHANGED book

\* line 188-193, 183-186: the run ends failed
Fail ==
    /\ book' = [book EXCEPT !.processing_status = "failed"]
    /\ call' = [call EXCEPT !.pc = "return", !.result = FALSE]

\* line 107-116, 169-181: the run ends completed
Complete ==
    /\ book' = [book EXCEPT !.processing_status = "completed",
                            !.text_path = "artifact",
                            !.word_count = WordCount(artifact.content)]
    /\ call' = [call EXCEPT !.pc = "return", !.result = TRUE]

\* line 93-116: the PDF is looked for, the stitcher made (os.makedirs on the
\* default directory may fail away from it), an existing artifact reused
CheckFiles ==
    /\ call.pc = "check"
    /\ \E made \in (IF at_home THEN {TRUE} ELSE BOOLEAN) :
          IF ~pdf_file.exists \/ ~made THEN Fail
          ELSE IF artifact.exists THEN Complete
          ELSE call' = [call EXCEPT !.pc = "extract"] /\ UNCHANGED book
    /\ UNCHANGED <<at_home, pdf_file, out_json, artifact, reply>>
    /\ UNCHANGED <<cleanVars, extractVars, stitchVars, sessionVars>>

\* line 118-160: the pages are read and outputs/<name>.json written
ExtractPages ==
    /\ call.pc = "extract"
    /\ IF ~pdf_file.exists \/ ~pdf_file.readable
       THEN Fail /\ UNCHANGED out_json
       ELSE /\ out_json' = PagesFile(PagesData(pdf_file.pages))
            /\ call' = [call EXCEPT !.pc = "stitch"]
            /\ UNCHANGED book
    /\ UNCHANGED <<at_home, pdf_file, artifact, reply>>
    /\ UNCHANGED <<cleanVars, extractVars, stitchVars, sessionVars>>

\* Paths are sequences of components; a file name is its stem and its
\* extension.  stitch_content.py line 18: the default input_dir
InputDir ==
    <<"Users", "udaikhattar", "Desktop", "Development", "DeepSeek Research",
      "outputs">>

\* os.path.dirname
DirName(path) == SubSeq(path, 1, Len(path) - 1)

\* stitch_content.py line 20
OutputDir == DirName(InputDir) \o <<"stitched_content">>

\* a working directory that is not the parent of the default input_dir
ElsewhereDir == <<"srv", "flash-reader">>

\* the working directory of the server
Cwd == IF at_home THEN DirName(InputDir) ELSE ElsewhereDir

\* app.py line 17: BASE_DIR, for a server started in the directory of app.py
BaseDir == Cwd

\* the path open and os.path.exists resolve a relative path to
Resolve(rel) == Cwd \o rel

\* the stem of the uploaded file's name
BookStem == "book"

\* app.py line 101
JsonFilename(stem) == <<stem, ".json">>

\* app.py line 102-103: text_path
TextPath(stem) == Resolve(<<"stitched_content", stem, ".txt">>)

\* app.py line 155: json_path
JsonPath(stem) == Resolve(<<"outputs">> \o JsonFilename(stem))

\* stitch_content.py line 133: the path stitch_content reads
StitchJsonPath(json_filename) == InputDir \o json_filename

\* stitch_content.py line 141-142: output_path for the source at json_path
StitchOutputPath(json_path) ==
    OutputDir \o <<json_path[Len(json_path) - 1], ".txt">>

\* the file at os.path.join(self.input_dir, json_filename): outputs/<name>.json
\* when the working directory is the parent of input_dir, no file otherwise
StitcherSource ==
    IF StitchJsonPath(JsonFilename(BookStem)) = JsonPath(BookStem)
    THEN out_json ELSE BrokenFile("missing")

\* stitch_content line 146-148 is reached for the book's artifact: the
\* output path is the artifact's (it is not away from the default directory)
\* and there is text
WritesArtifact(text) ==
    /\ StitchOutputPath(StitchJsonPath(JsonFilename(BookStem))) = TextPath(BookStem)
    /\ ShouldWrite(text)

\* stitch_content line 147-148: how open and f.write can end.  open fails
\* and the path is left as it was, or open creates the file and `kept`
\* characters reach it: all of them, or fewer when the write or the flush
\* at the end of the `with` raises
WriteOutcomes(text) ==
    {[opened |-> FALSE, kept |-> 0]}
    \cup {[opened |-> TRUE, kept |-> n] : n \in {0, Len(text) \div 2, Len(text)}}

\* line 147-148 raised
WriteFailed(text, how) == ~how.opened \/ how.kept < Len(text)

\* stitch_content line 144-155 on the text process_json_file returned
WriteArtifact(text, how) ==
    IF WritesArtifact(text) /\ how.opened
    THEN artifact' = File(SubSeq(text, 1, how.kept))
    ELSE UNCHANGED artifact

\* line 164 of the run with the text the stitcher has for the book
StitchWith(text) ==
    \E how \in WriteOutcomes(text) :
        /\ WriteArtifact(text, how)
        /\ call' = [call EXCEPT !.pc = "conclude", !.stitched = TRUE,
                                !.source_error = LoadError(StitcherSource),
                                !.source_pages = Len(StitcherSource.pages),
                                !.write_failed = WritesArtifact(text)
                                                 /\ WriteFailed(text, how)]

\* line 164: stitcher.stitch_content(json_filename)
Stitch ==
    /\ call.pc = "stitch"
    /\ StitchWith(ProcessJsonFile(StitcherSource).val)
    /\ UNCHANGED <<at_home, book, pdf_file, out_json, reply>>
    /\ UNCHANGED <<cleanVars, extractVars, stitchVars, sessionVars>>

\* line 166-186: the artifact is looked for
Conclude ==
    /\ call.pc = "conclude"
    /\ IF artifact.exists THEN Complete ELSE Fail
    /\ UNCHANGED <<at_home, pdf_file, out_json, artifact, reply>>
    /\ UNCHANGED <<cleanVars, extractVars, stitchVars, sessionVars>>

\* line 392-395 and 416-428: the caller's response
Respond ==
    /\ call.pc = "return"
    /\ reply' = IF call.by = "upload_file" THEN "200"
                ELSE IF call.result /\ artifact.exists THEN "200"
                ELSE "500"
    /\ call' = [call EXCEPT !.pc = "idle"]
    /\ UNCHANGED <<at_home, book, pdf_file, out_json, artifact>>
    /\ UNCHANGED <<cleanVars, extractVars, stitchVars, sessionVars>>

\* the environment: the text artifact is removed
RemoveArtifact ==
    /\ artifact.exists
    /\ artifact' = NoFile
    /\ UNCHANGED <<at_home, book, pdf_file, out_json, call, reply>>
    /\ UNCHANGED <<cleanVars, extractVars, stitchVars, sessionVars>>

\* the environment: the uploaded PDF is removed
RemovePdf ==
    /\ pdf_file.exists
    /\ pdf_file' = [exists |-> FALSE, readable |-> FALSE, pages |-> <<>>]
    /\ UNCHANGED <<at_home, book, artifact, out_json, call, reply>>
    /\ UNCHANGED <<cleanVars, extractVars, stitchVars, sessionVars>>

\* the environment: the source JSON is removed or damaged before it is read
DamageSource ==
    /\ call.pc = "stitch" /\ out_json.kind = "pages"
    /\ \E kind \in {"missing", "invalid_json"} : out_json' = BrokenFile(kind)
    /\ UNCHANGED <<at_home, book, pdf_file, artifact, call, reply>>
    /\ UNCHANGED <<cleanVars, extractVars, stitchVars, sessionVars>>

\* app.py line 248-285: get_default_books for a user without a Philosophia
\* Ultima row, with Philosophia_Ultima.json under BASE_DIR/outputs.  The
\* stitcher is made (os.makedirs on the default directory may fail away from
\* it, and nothing catches that), stitch_content('Philosophia_Ultima.json')
\* runs, and the row is added when the file at text_path exists.  It reads
\* and writes nothing of the uploaded book, so its place among the other
\* requests does not matter: it is taken before the upload.
GetDefaultBooks ==
    /\ call.pc = "idle" /\ ~defaults.stitched /\ ~book.exists
    /\ \E made \in (IF at_home THEN {TRUE} ELSE BOOLEAN) :
          IF ~made THEN reply' = "500" /\ UNCHANGED defaults
          ELSE /\ defaults' =
                    [stitched   |-> TRUE,
                     write_path |-> StitchOutputPath(
                                        StitchJsonPath(JsonFilename("Philosophia_Ultima"))),
                     look_path  |-> BaseDir \o <<"stitched_content",
                                                "Philosophia_Ultima_1", ".txt">>,
                     row        |-> StitchOutputPath(
                                        StitchJsonPath(JsonFilename("Philosophia_Ultima")))
                                    = BaseDir \o <<"stitched_content",
                                                   "Philosophia_Ultima_1", ".txt">>]
               /\ UNCHANGED reply
    /\ UNCHANGED <<at_home, book, pdf_file, out_json, artifact, call>>
    /\ UNCHANGED <<parked, other, earlier, batch, chunker>>
    /\ UNCHANGED <<cleanVars, extractVars, stitchVars>>

AppNext ==
    \/ UploadFile \/ GetBookContent \/ Begin \/ CheckFiles \/ ExtractPages
    \/ Stitch \/ Conclude \/ Respond \/ RemoveArtifact \/ RemovePdf
    \/ DamageSource

SpecApp == AppInit /\ [][AppNext]_vars

\* the server with the request for the default books as well
DefaultsNext == AppNext \/ GetDefaultBooks

SpecDefaults == AppInit /\ [][DefaultsNext]_vars

----------------------------------------------------------------------------
(* Two users' books, src/app.py:365-390: each upload is saved under the    *)
(* user's own directory, uploads/<user_id>/<filename>, and process_pdf     *)
(* derives the JSON and text paths from the file name alone.               *)

\* the stem of the other user's file name
OtherStem == IF other.same_name THEN BookStem ELSE "other"

SharedInit ==
    /\ at_home = TRUE
    /\ book = NoBook
    /\ pdf_file = NoPdf
    /\ out_json = BrokenFile("missing")
    /\ artifact = NoFile
    /\ call = NoCall
    /\ reply = "none"
    /\ parked = NoCall /\ defaults = NoDefaults /\ earlier = <<>> /\ batch = NoBatch
    /\ chunker = NoChunker
    /\ other \in {[NoOther EXCEPT !.same_name = b] : b \in BOOLEAN}
    /\ CleanIdle /\ ExtractIdle /\ StitchIdle

\* the next request comes from the other user: their row and their upload
\* are the ones at hand, and so are the files at outputs/<name>.json and
\* stitched_content/<name>.txt for their file name
SwitchUser ==
    /\ call.pc = "idle"
    /\ book' = other.book
    /\ pdf_file' = other.pdf_file
    /\ out_json' = IF JsonPath(OtherStem) = JsonPath(BookStem)
                   THEN out_json ELSE other.out_json
    /\ artifact' = IF TextPath(OtherStem) = TextPath(BookStem)
                   THEN artifact ELSE other.artifact
    /\ other' = [other EXCEPT !.book = book, !.pdf_file = pdf_file,
                              !.out_json = out_json, !.artifact = artifact]
    /\ UNCHANGED <<at_home, call, reply>>
    /\ UNCHANGED <<parked, defaults, earlier, batch, chunker>>
    /\ UNCHANGED <<cleanVars, extractVars, stitchVars>>

SharedNext ==
    \/ UploadFile \/ GetBookContent \/ Begin \/ CheckFiles \/ ExtractPages
    \/ Stitch \/ Conclude \/ Respond \/ SwitchUser

SpecShared == SharedInit /\ [][SharedNext]_vars

----------------------------------------------------------------------------
(* Two requests in flight on one book: app.run (src/app.py:459-463) serves *)
(* each request on its own thread, and process_pdf takes no lock.          *)

RaceInit ==
    /\ at_home = TRUE
    /\ book = NoBook
    /\ pdf_file = NoPdf
    /\ out_json = BrokenFile("missing")
    /\ artifact = NoFile
    /\ call = NoCall
    /\ reply = "none"
    /\ CleanIdle /\ ExtractIdle /\ StitchIdle /\ SessionIdle

\* the scheduler runs the other request's thread: its process_pdf call is
\* the one that takes the next step
SwitchRequest ==
    /\ call' = parked
    /\ parked' = call
    /\ call # parked
    /\ UNCHANGED <<at_home, book, pdf_file, out_json, artifact, reply>>
    /\ UNCHANGED <<other, defaults, earlier, batch, chunker>>
    /\ UNCHANGED <<cleanVars, extractVars, stitchVars>>

RaceNext ==
    \/ UploadFile \/ GetBookContent \/ Begin \/ CheckFiles \/ ExtractPages
    \/ Stitch \/ Conclude \/ Respond \/ SwitchRequest

SpecRace == RaceInit /\ [][RaceNext]_vars

----------------------------------------------------------------------------
(* The properties.                                                         *)

\* the status changes the life cycle admits
StatusMoves ==
    { <<"none", "pending">>, <<"pending", "processing">>,
      <<"processing", "completed">>, <<"processing", "failed">> }

\* C1: a book's processing_status only moves pending -> processing ->
\* completed or failed, and a completed or failed status never changes again,
\* whatever upload_file, get_book_content and process_pdf do, also after the
\* text artifact was removed.
C1_StatusIsTerminal ==
    [][book.processing_status' # book.processing_status =>
         <<book.processing_status, book.processing_status'>> \in StatusMoves]_vars

\* the fragment the envelope the inner loop is at yields
FragmentAtHand == ExtractContent(data[page_i].deepseek_output[chunk_i]).val

\* what a pass of the inner loop over the fragment content does to the
\* headings: content is emitted and becomes current_chapter, or nothing is
\* emitted and current_chapter stays
HeadingRule(content) ==
    IF content # <<>> /\ IsHeading(content) /\ <<content>> # locals.current_chapter
    THEN /\ locals.all_content' =
                Append(locals.all_content, HeadingParagraph(content))
         /\ locals.current_chapter' = <<content>>
    ELSE /\ locals.all_content' = locals.all_content
         /\ locals.current_chapter' = locals.current_chapter

\* C2: a fragment that matches the heading pattern is emitted as a heading
\* paragraph if and only if it differs from current_chapter, the most recently
\* emitted heading; current_chapter is changed by such a heading only, and is
\* kept across envelopes and pages.
C2_HeadingEmittedIffDiffers ==
    [][IF spc = "chunk" /\ chunk_i' = chunk_i + 1
       THEN HeadingRule(FragmentAtHand)
       ELSE spc \in {"page", "chunk"} =>
               locals.current_chapter' = locals.current_chapter]_vars

\* C2's case: a heading was emitted again after a different heading
C2_HeadingEmittedAgain ==
    locals.all_content = << HeadingParagraph(TextChapterOne),
                            HeadingParagraph(TextPartTwo),
                            HeadingParagraph(TextChapterOne) >>

\* the entries of all_content that are page bodies
BodyEntries == {k \in DOMAIN locals.origin : locals.origin[k].kind = "body"}

\* a fragment that is no heading
IsBodyFragment(content) == content # <<>> /\ ~IsHeading(content)

\* a page record that yields body content
HasBody(page) ==
    \E c \in DOMAIN page.deepseek_output :
        IsBodyFragment(ExtractContent(page.deepseek_output[c]).val)

\* the run read the whole source
ReadAll ==
    /\ spc = "returned"
    /\ LoadError(json_file) = "none"
    /\ \A k \in DOMAIN json_file.pages : json_file.pages[k].has_output

\* C3: the page bodies are emitted in ascending page_number order whatever
\* the order of the input array, records of equal page_number in their input
\* order, and every page with body content is emitted.
C3_BodiesInPageOrder ==
    /\ \A i, j \in BodyEntries :
          i < j =>
             \/ locals.origin[i].page_number < locals.origin[j].page_number
             \/ /\ locals.origin[i].page_number = locals.origin[j].page_number
                /\ locals.origin[i].idx < locals.origin[j].idx
    /\ \A k \in BodyEntries :
          /\ locals.origin[k].idx \in DOMAIN json_file.pages
          /\ locals.origin[k].page_number =
                json_file.pages[locals.origin[k].idx].page_number
    /\ ReadAll =>
          \A p \in DOMAIN json_file.pages :
              HasBody(json_file.pages[p]) =>
                  \E k \in BodyEntries : locals.origin[k].idx = p

\* C3's case: pages numbered 3, 1, 2 in the input were emitted as 1, 2, 3
C3_ThreeOneTwo ==
    /\ ReadAll
    /\ [k \in DOMAIN json_file.pages |-> json_file.pages[k].page_number] = <<3, 1, 2>>
    /\ [k \in DOMAIN locals.origin |-> locals.origin[k].kind] = <<"body", "body", "body">>
    /\ [k \in DOMAIN locals.origin |-> locals.origin[k].idx] = <<2, 3, 1>>

\* the segments of the combined content of the page at hand
PageSegments == Split(Join(locals.page_content, <<" ">>), <<".", " ">>)

\* the step that ends a page which has content
EndsPageWithContent == spc = "chunk" /\ spc' = "page" /\ locals.page_content # <<>>

\* C4: deduplication never spans pages: a page's paragraph holds every segment
\* of the page's combined content, also one an earlier page held, and the
\* segments seen when the page ends are segments of that page only.
C4_SeenSetIsPerPage ==
    [][EndsPageWithContent =>
         /\ \A k \in DOMAIN PageSegments :
               PageSegments[k] # <<>> =>
                   PageSegments[k] \in Range(locals.unique_sentences')
         /\ Range(locals.unique_sentences') \subseteq Range(PageSegments)
         /\ locals.all_content' =
               Append(locals.all_content,
                      Join(locals.unique_sentences', <<".", " ">>))]_vars

\* C4's case: two pages hold the same sentences and each kept them
C4_SameSentenceOnTwoPages ==
    /\ Len(locals.all_content) = 2
    /\ locals.all_content[1] = locals.all_content[2]
    /\ locals.all_content[1] # <<>>
    /\ locals.origin[1].kind = "body" /\ locals.origin[2].kind = "body"
    /\ locals.origin[1].idx # locals.origin[2].idx

\* the indices at which a segment occurs for the first time
FirstSeen(segs) ==
    {i \in DOMAIN segs : \A j \in 1..(i - 1) : segs[j] # segs[i]}

\* the indices of the segments that are not empty
NonEmpty(segs) == {i \in DOMAIN segs : segs[i] # <<>>}

\* the segments at the indices of I, in order, from index i on
RECURSIVE Pick(_, _, _)
Pick(segs, I, i) ==
    IF i > Len(segs) THEN <<>>
    ELSE (IF i \in I THEN <<segs[i]>> ELSE <<>>) \o Pick(segs, I, i + 1)

TextHelloDone == TextHello \o <<" ","D","o","n","e",".">>

\* C5, as the code has it: the combined content of a page is split at every
\* ". ", each segment that is not empty is kept at its first occurrence, in
\* first-seen order, an empty segment is dropped, and the kept segments are
\* rejoined with ". "; "Hello world. Hello world. Done." becomes
\* "Hello world. Done.".
C5_FirstOccurrencesOfNonEmpty ==
    [][EndsPageWithContent =>
         /\ locals.all_content' =
               Append(locals.all_content,
                      Join(Pick(PageSegments,
                                FirstSeen(PageSegments) \cap NonEmpty(PageSegments),
                                1),
                           <<".", " ">>))
         /\ locals.page_content = <<TextHelloTwice>> =>
               locals.all_content'[Len(locals.all_content')] = TextHelloDone]_vars

\* C5 as stated: every segment, an empty one too, is kept at its first
\* occurrence
C5_FirstOccurrencesOfAll ==
    [][EndsPageWithContent =>
         locals.all_content' =
            Append(locals.all_content,
                   Join(Pick(PageSegments, FirstSeen(PageSegments), 1),
                        <<".", " ">>))]_vars

\* C5's case: a page with a repeated sentence and a page with empty segments
\* were deduplicated
C5_RepeatAndEmptySegments ==
    /\ spc = "page"
    /\ locals.page_content = <<TextDots>>
    /\ locals.all_content =
          << TextHelloDone, <<"W","a","i","t","."," ","w","h","a","t">> >>

\* C6: extract_content_from_response never fails: for every envelope it
\* returns a string and raises nothing; the truncated payload
\* {"content": "partial text here gives the recovered text or the empty string.
C6_ExtractNeverFails ==
    epc = "done" =>
        /\ extracted.exc = "none"
        /\ \A k \in DOMAIN extracted.val : extracted.val[k] \in STRING
        /\ DOMAIN extracted.val = 1..Len(extracted.val)
        /\ (envelope.shape = "content_str" /\ envelope.payload = TruncatedPayload) =>
              extracted.val \in {<<>>, TextPartial}

\* C6's case: the call returned although its body raised
C6_RaisedInsideAndReturned ==
    /\ epc = "done"
    /\ envelope.shape = "content_str"
    /\ ExtractBody(envelope).exc # "none"
    /\ extracted = Returns(<<>>)

\* a page record whose envelopes all yield empty content
EmptyPage(page) ==
    /\ page.has_output
    /\ \A c \in DOMAIN page.deepseek_output :
          ExtractContent(page.deepseek_output[c]).val = <<>>

\* the source without its page k
WithoutPage(file, k) ==
    PagesFile(SubSeq(file.pages, 1, k - 1) \o SubSeq(file.pages, k + 1, Len(file.pages)))

\* C7: a page whose envelopes all yield empty content contributes no
\* paragraph and does not fail the run: the text is the text of the same
\* input without that page.
C7_EmptyPageContributesNothing ==
    ReadAll =>
        \A p \in DOMAIN json_file.pages :
            EmptyPage(json_file.pages[p]) =>
                /\ \A k \in DOMAIN locals.origin : locals.origin[k].idx # p
                /\ run_content = ProcessJsonFile(WithoutPage(json_file, p)).val

\* C7's case: a run over an empty page and a page with content
C7_EmptyPageAmongOthers ==
    /\ ReadAll
    /\ run_content # <<>>
    /\ \E p \in DOMAIN json_file.pages :
          /\ EmptyPage(json_file.pages[p])
          /\ json_file.pages[p].deepseek_output # <<>>

\* C8: a document with zero pages gives an empty output with no error: the
\* run over an empty page array is not reported to the caller as a failure.
C8_ZeroPagesIsNoFailure ==
    (/\ call.pc = "return"
     /\ call.stitched
     /\ call.source_error = "none"
     /\ call.source_pages = 0) => call.result

TextCatRaw ==
    LitContentKey \o <<" ", Quote>>
    \o <<"T","h","e"," ","c","a","t"," ","s","a","t",".">>
    \o <<BackSlash, "n", BackSlash, "n">>
    \o <<"I","t"," ","s","l","e","p","t",".">> \o <<Quote>>

TextCatClean ==
    <<"T","h","e"," ","c","a","t"," ","s","a","t","."," ",
      "I","t"," ","s","l","e","p","t",".">>

\* C10: for "content": "<body>" clean_text returns the body with no
\* backslash, no double quote and no key fragment left; the input
\* "content": "The cat sat.\n\nIt slept." gives The cat sat. It slept.
C10_BodyWithoutResidue ==
    cpc = "done" =>
        /\ \A k \in DOMAIN cleaned : cleaned[k] \notin {BackSlash, Quote}
        /\ FindLit(cleaned, 1, LitContentKey) = 0
        /\ raw = TextCatRaw => cleaned = TextCatClean

\* whether s holds the characters lit one after the other
Holds(s, lit) == FindLit(s, 1, lit) # 0

\* C11: every string clean_text returns holds no brace, no backslash, no run
\* of more than one blank line, and no leading or trailing white space.
C11_CleanTextIsClean ==
    cpc = "done" =>
        /\ \A k \in DOMAIN cleaned : cleaned[k] \notin {"{", "}", BackSlash}
        /\ ~Holds(cleaned, <<NL, NL, NL>>)
        /\ cleaned # <<>> =>
              /\ cleaned[1] \notin WhiteSpace
              /\ cleaned[Len(cleaned)] \notin WhiteSpace

\* C11's case: clean_text returned text for an input that starts with white
\* space and holds a brace and a backslash
C11_DirtyInputCleaned ==
    /\ cpc = "done"
    /\ raw # <<>> /\ raw[1] \in WhiteSpace
    /\ \E k \in DOMAIN raw : raw[k] \in {"{", "}"}
    /\ \E k \in DOMAIN raw : raw[k] = BackSlash
    /\ cleaned # <<>>

\* the characters the spec lets a heading be composed of
HeadingChars == Upper \cup Digit \cup {" ", "-"}

\* whether p reads CHAPTER, white space, a number, a colon when colon is
\* asked for or else an optional one, and optional white space
ChapterPrefix(p, colon) ==
    /\ StartsWith(p, 1, LitChapter)
    /\ \E a \in (Len(LitChapter) + 2)..Len(p), d \in (Len(LitChapter) + 2)..Len(p) :
        /\ a <= d
        /\ \A k \in (Len(LitChapter) + 1)..(a - 1) : p[k] \in WhiteSpace
        /\ \A k \in a..d : p[k] \in Digit
        /\ \E c \in {d, d + 1} :
              /\ c <= Len(p)
              /\ c = d + 1 => p[c] = ":"
              /\ colon => c = d + 1
              /\ \A k \in (c + 1)..Len(p) : p[k] \in WhiteSpace

\* a fragment composed entirely of uppercase letters, digits, spaces and
\* hyphens, optionally prefixed with CHAPTER <number>:
ComposedOfHeadingChars(s) ==
    \E k \in 0..(Len(s) - 1) :
        /\ k = 0 \/ ChapterPrefix(SubSeq(s, 1, k), TRUE)
        /\ \A j \in (k + 1)..Len(s) : s[j] \in HeadingChars

\* a fragment that is an uppercase letter followed by at least one uppercase
\* letter, digit, white-space character or hyphen, optionally prefixed with
\* CHAPTER <number> and an optional colon
LetterLedHeading(s) ==
    \E k \in 0..(Len(s) - 2) :
        /\ k = 0 \/ ChapterPrefix(SubSeq(s, 1, k), FALSE)
        /\ s[k + 1] \in Upper
        /\ \A j \in (k + 2)..Len(s) :
              s[j] \in Upper \cup Digit \cup WhiteSpace \cup {"-"}

\* a pass of the inner loop took the fragment for a heading: it did not go to
\* page_content
TakenForHeading == locals.page_content' = locals.page_content

\* the pass over the fragment content followed the letter-led reading
LetterLedRule(content) ==
    content # <<>> => (TakenForHeading <=> LetterLedHeading(content))

\* the pass over the fragment content followed the reading of the spec
ComposedRule(content) ==
    content # <<>> => (TakenForHeading <=> ComposedOfHeadingChars(content))

\* C12 as amended: the heading test accepts a fragment exactly when it is an
\* uppercase letter followed by one or more uppercase letters, digits,
\* white-space characters or hyphens, optionally prefixed with CHAPTER
\* <number> and an optional colon; every other fragment is body content.
C12_HeadingTestLetterLed ==
    [][(spc = "chunk" /\ chunk_i' = chunk_i + 1) =>
          LetterLedRule(FragmentAtHand)]_vars

\* C12: the heading test accepts a fragment exactly when it is composed
\* entirely of uppercase letters, digits, spaces and hyphens, optionally
\* prefixed with CHAPTER <number>:, a single uppercase letter included.
C12_HeadingTestAnyComposed ==
    [][(spc = "chunk" /\ chunk_i' = chunk_i + 1) =>
          ComposedRule(FragmentAtHand)]_vars

\* C12's case: the loop has put the first fragment of a page to the test, a
\* fragment of heading characters only, and taken it for body content
C12_ComposedFragmentsRead ==
    /\ spc = "chunk" /\ chunk_i >= 2
    /\ ComposedOfHeadingChars(ExtractContent(data[page_i].deepseek_output[1]).val)
    /\ ExtractContent(data[page_i].deepseek_output[1]).val # <<>>
    /\ locals.page_content # <<>>

\* the index of the quote of the terminator at index e
TerminatorQuote(s, e) == IF s[e] = Quote THEN e ELSE SkipClass(s, e, WhiteSpace)

\* a terminator at index e whose quote no backslash escapes
UnescapedTerminatorAt(s, e) ==
    /\ TerminatorAt(s, e)
    /\ BackslashRun(s, TerminatorQuote(s, e) - 1) % 2 = 0

\* where the value that starts at index k ends: at the first unescaped
\* terminator (0: none follows)
UnescapedEnd(s, k) ==
    LET ends == {e \in k..Len(s) : UnescapedTerminatorAt(s, e)}
    IN  IF k = 0 \/ ends = {} THEN 0 ELSE Min(ends)

\* the text after the first "content" key and its opening quote, up to the
\* first unescaped terminator; nothing without such a key
ValueUpToUnescaped(s, starts) ==
    IF starts = {} THEN <<>>
    ELSE SubSeq(s, MatchContentKey(s, Min(starts)),
                UnescapedEnd(s, MatchContentKey(s, Min(starts))) - 1)

\* the envelope's payload is a string that strict decoding refuses
FallbackTaken ==
    /\ envelope.shape = "content_str"
    /\ envelope.payload # <<>>
    /\ ~JsonLoads(StripFenceMarkers(envelope.payload)).ok

\* C13: when strict decoding fails, the fallback returns the text after the
\* "content" key and its opening quote up to the first unescaped terminator;
\* an escaped quote that a comma or brace follows does not end it.
C13_FallbackStopsAtUnescaped ==
    (epc = "done" /\ FallbackTaken) =>
        extracted =
            Returns(CleanText(ValueUpToUnescaped(envelope.payload,
                {i \in 1..Len(envelope.payload) :
                    UnescapedEnd(envelope.payload,
                                 MatchContentKey(envelope.payload, i)) # 0})))

\* whether s holds a character that is no white space
HasText(s) == \E k \in DOMAIN s : s[k] \notin WhiteSpace

\* every piece holds text
AllHaveText(pieces) == \A k \in DOMAIN pieces : HasText(pieces[k])

\* C14: the text process_json_file returns has its paragraphs separated by
\* exactly one blank line: no run of three or more newlines, no paragraph of
\* white space only, and no leading or trailing white space.
C14_OneBlankLineBetweenParagraphs ==
    (spc = "returned" /\ run_content # <<>>) =>
        /\ ~Holds(run_content, <<NL, NL, NL>>)
        /\ AllHaveText(Split(run_content, <<NL, NL>>))
        /\ run_content[1] \notin WhiteSpace
        /\ run_content[Len(run_content)] \notin WhiteSpace

\* C14's case: a run returned text assembled from two headings, one right
\* after the other, and a page body
C14_HeadingsAndBodyReturned ==
    /\ spc = "returned"
    /\ \E k \in DOMAIN locals.origin :
          /\ k + 2 <= Len(locals.origin)
          /\ locals.origin[k].kind = "heading"
          /\ locals.origin[k + 1].kind = "heading"
          /\ locals.origin[k + 2].kind = "body"
    /\ run_content # <<>>

\* C15: the path where stitch_content writes and the path where process_pdf
\* and get_default_books look for the result are the same path, and the path
\* where the caller writes the source JSON is the path stitch_content reads.
C15_CallerAndStitcherPathsAgree ==
    /\ call.stitched =>
          /\ StitchJsonPath(JsonFilename(BookStem)) = JsonPath(BookStem)
          /\ StitchOutputPath(StitchJsonPath(JsonFilename(BookStem)))
                = TextPath(BookStem)
    /\ defaults.stitched => defaults.write_path = defaults.look_path

\* the text assembled from the pages of the PDF at hand
OwnText == ProcessJsonFile(PagesFile(PagesData(pdf_file.pages))).val

\* C16: two distinct books never map to the same text artifact path, so a
\* book that reaches status completed has a text_path whose content was
\* assembled from that book's own PDF.
C16_OwnArtifactPerBook ==
    /\ (book.exists /\ other.book.exists) =>
          TextPath(BookStem) # TextPath(OtherStem)
    /\ book.processing_status = "completed" =>
          /\ book.text_path = "artifact"
          /\ artifact.exists
          /\ artifact.content = OwnText

\* the process_pdf call c is past the check of line 106 and has not yet
\* come back from stitch_content: an assembly run that writes the text path
Assembling(c) == c.pc \in {"extract", "stitch"}

\* C17: under every interleaving of upload_file and get_book_content
\* requests no two assembly runs write the same output path at the same
\* time, and no assembly run is under way for a document whose artifact
\* exists.
C17_OneWriterPerPath ==
    /\ ~(Assembling(call) /\ Assembling(parked))
    /\ \A c \in {call, parked} : Assembling(c) => ~artifact.exists

----------------------------------------------------------------------------
(* Runs of process_json_file one after another, on any sources.            *)

\* the runs a behaviour remembers
MaxReruns == 2

\* sources whose first heading is or is not the last heading of another
RerunDocs ==
    { PagesFile(<<PageRecord(1, <<Envelope(TextChapterOne), Envelope(TextHello)>>)>>),
      PagesFile(<<PageRecord(1, <<Envelope(TextHello), Envelope(TextChapterOne)>>)>>),
      PagesFile(<<PageRecord(1, <<Envelope(TextPartTwo)>>),
                  PageRecord(2, <<Envelope(TextChapterOne)>>)>>),
      PagesFile(<<PageRecord(1, <<Envelope(TextPartTwo), Envelope(TextHelloTwice)>>)>>),
      PagesFile(<<PageRecord(1, <<Envelope(TextHello)>>)>>),
      BrokenFile("invalid_json") }

RerunInit ==
    /\ json_file \in RerunDocs
    /\ text_file = NoFile
    /\ before = text_file
    /\ spc = "idle" /\ data = <<>> /\ order = <<>>
    /\ page_i = 0 /\ chunk_i = 0
    /\ locals = InitialLocals /\ run_content = <<>>
    /\ outcome = "none" /\ runs = 0
    /\ CleanIdle /\ ExtractIdle /\ AppIdle /\ SessionIdle

\* the run that returned is remembered and the caller turns to a source, the
\* same or another, for its next call
Again ==
    /\ spc = "idle" /\ runs > 0 /\ Len(earlier) < MaxReruns
    /\ earlier' = Append(earlier, [source |-> json_file, text |-> run_content])
    /\ json_file' \in RerunDocs
    /\ runs' = 0
    /\ UNCHANGED <<text_file, before, spc, data, order, page_i, chunk_i, locals,
                   run_content, outcome>>
    /\ UNCHANGED <<parked, other, defaults, batch, chunker>>
    /\ UNCHANGED <<cleanVars, extractVars, appVars>>

RerunNext == StitchNext \/ Again

SpecRerun == RerunInit /\ [][RerunNext]_vars

\* the run at hand returned and a run before it read the same source
SameSourceBefore(e) == spc = "returned" /\ e.source = json_file

\* C18: two runs of process_json_file on the same input return the same
\* text, whatever ran in between.
C18_SameInputSameText ==
    \A k \in 1..Len(earlier) :
        SameSourceBefore(earlier[k]) => earlier[k].text = run_content

\* a source with a heading was read, then a source ending on another heading,
\* then the first again, which returned text
C18_SameSourceAfterAnother ==
    /\ Len(earlier) >= 2
    /\ SameSourceBefore(earlier[1])
    /\ earlier[2].source # json_file
    /\ Holds(earlier[2].text, TextChapterOne)
    /\ Holds(run_content, TextChapterOne)

----------------------------------------------------------------------------
(* stitch_content over every JSON file of input_dir.                       *)

\* the most JSON files input_dir holds
MaxBatch == 3

\* sources that yield text, that yield none, and that cannot be parsed
BatchDocs ==
    { PagesFile(<<PageRecord(1, <<Envelope(TextHello)>>)>>),
      PagesFile(<<PageRecord(1, <<>>)>>),
      BrokenFile("invalid_json") }

\* the files of input_dir in the order os.listdir gives them
BatchFiles ==
    SeqsUpTo([source : BatchDocs, writable : BOOLEAN], MaxBatch)

BatchInit ==
    /\ batch \in {[NoBatch EXCEPT !.files = fs] : fs \in BatchFiles}
    /\ parked = NoCall /\ other = NoOther /\ defaults = NoDefaults /\ earlier = <<>>
    /\ chunker = NoChunker
    /\ CleanIdle /\ ExtractIdle /\ StitchIdle /\ AppIdle

\* the exceptions `except Exception` (line 157) catches
CaughtByStitch == CaughtByProcess \cup {"OSError"}

\* line 147: open(output_path, 'w')
OpenForWriting(file) == IF file.writable THEN "none" ELSE "OSError"

\* line 131-136: the call without a json_filename, the listing
BatchCall ==
    /\ batch.pc = "off"
    /\ batch' = [batch EXCEPT !.pc = "loop", !.i = 1]
    /\ UNCHANGED <<parked, other, defaults, earlier, chunker>>
    /\ UNCHANGED <<cleanVars, extractVars, stitchVars, appVars>>

\* line 138-155: one json_path of the loop; an exception ends the try
BatchFile ==
    /\ batch.pc = "loop" /\ batch.i <= Len(batch.files)
    /\ LET file == batch.files[batch.i]
           content == ProcessJsonFile(file.source)
           exc == IF content.exc # "none" THEN content.exc
                  ELSE IF ShouldWrite(content.val) THEN OpenForWriting(file)
                  ELSE "none"
       IN  IF exc # "none"
           THEN batch' = [batch EXCEPT !.pc = "done",
                                       !.raised = exc \notin CaughtByStitch]
           ELSE batch' = [batch EXCEPT !.i = @ + 1,
                              !.written = IF ShouldWrite(content.val)
                                          THEN @ \cup {batch.i} ELSE @]
    /\ UNCHANGED <<parked, other, defaults, earlier, chunker>>
    /\ UNCHANGED <<cleanVars, extractVars, stitchVars, appVars>>

\* the loop is over and stitch_content returns
BatchEnd ==
    /\ batch.pc = "loop" /\ batch.i > Len(batch.files)
    /\ batch' = [batch EXCEPT !.pc = "done"]
    /\ UNCHANGED <<parked, other, defaults, earlier, chunker>>
    /\ UNCHANGED <<cleanVars, extractVars, stitchVars, appVars>>

BatchNext == BatchCall \/ BatchFile \/ BatchEnd

SpecBatch == BatchInit /\ [][BatchNext]_vars

\* the document at k of the batch has text and a path that can be written
CanBeProduced(k) ==
    /\ ShouldWrite(ProcessJsonFile(batch.files[k].source).val)
    /\ batch.files[k].writable

\* C19: stitch_content does not raise, and when it has returned every
\* document of the batch that did not itself fail has its artifact.
C19_FailureStaysWithItsDocument ==
    batch.pc = "done" =>
        /\ ~batch.raised
        /\ \A k \in 1..Len(batch.files) : CanBeProduced(k) => k \in batch.written

----------------------------------------------------------------------------
(* A write of the artifact that fails.                                     *)

\* process_pdf is about to return after a run whose write of the artifact
\* raised
WriteFailedRun == call.pc = "return" /\ call.write_failed

\* C20: when writing the text file fails, also after the file was created,
\* process_pdf ends with processing_status failed and returns False.
C20_WriteFailureIsFailure ==
    WriteFailedRun => ~call.result /\ book.processing_status = "failed"

----------------------------------------------------------------------------
(* clean_text on fragments of several lines.                               *)

\* the most pieces an input of LineInputs is built from
MaxLineAtoms == 4

\* Figure 1: A cat.
TextCaption ==
    <<"F","i","g","u","r","e"," ","1",":"," ","A"," ","c","a","t",".">>

\* a heading line after a blank line, line ends, a space, body text, a
\* figure caption, a page number
LineAtoms ==
    { <<NL, NL>> \o TextPartTwo, TextPartTwo, <<NL>>, <<" ">>, TextHello,
      TextCaption, <<"1", "2">> }

LineInputs == {Flatten(b) : b \in SeqsUpTo(LineAtoms, MaxLineAtoms)}

LinesInit ==
    /\ raw \in LineInputs
    /\ cleaned = <<>>
    /\ cpc = "ready"
    /\ StitchIdle /\ ExtractIdle /\ AppIdle /\ SessionIdle

SpecLines == LinesInit /\ [][CleanNext]_vars

\* how many times lit starts in s
Occurrences(s, lit) == Cardinality({j \in 1..Len(s) : StartsWith(s, j, lit)})

\* the text holds the heading h twice, as a heading line directly followed by
\* the identical heading line, the way the pattern of line 44 reads it
RepeatedHeadingLine(text, h) ==
    /\ Occurrences(text, h) = 2
    /\ \E j \in 1..Len(text) : DupChapterSplits(text, j) # {}

\* C21: for every input in which a heading line is directly followed by the
\* identical heading line, the text clean_text returns holds that heading
\* once.
C21_RepeatedHeadingOnce ==
    (cpc = "done" /\ RepeatedHeadingLine(raw, TextPartTwo)) =>
        Occurrences(cleaned, TextPartTwo) = 1

\* the line at k of lines is a figure caption from its start and a line after
\* it is body text
BodyLineAfterCaption(lines, body) ==
    \E k, j \in DOMAIN lines :
        /\ k < j
        /\ MatchFigure(lines[k], 1) # 0
        /\ lines[j] = body

\* C22: the page-number and figure pass removes a caption through the end of
\* its own line only: the text of a line after a caption is in the text
\* clean_text returns.
C22_LinesAfterCaptionKept ==
    (cpc = "done" /\ BodyLineAfterCaption(Split(raw, <<NL>>), TextHello)) =>
        Holds(cleaned, TextHello)

----------------------------------------------------------------------------
(* The place of a page's headings and body in the output.                  *)

\* what a pass of the inner loop over the fragment content does to the body
\* fragments of the page: a body fragment goes to the end of page_content
BodyRule(content) ==
    locals.page_content' =
        IF IsBodyFragment(content) THEN Append(locals.page_content, content)
        ELSE locals.page_content

\* entries of origin are in ascending page_number, and within one page
\* record nothing follows the body entry
PlacedInOrder ==
    \A i, j \in DOMAIN locals.origin :
        i < j =>
           /\ locals.origin[i].page_number <= locals.origin[j].page_number
           /\ locals.origin[i].idx = locals.origin[j].idx =>
                 locals.origin[i].kind = "heading"

\* C23: what a page emits comes after all that pages of smaller number
\* emitted, a page's headings come before its one body paragraph, also a
\* heading whose envelope is stored after body envelopes, and the body
\* fragments of a page are collected in their stored order, from none.
C23_HeadingsBeforeBodyOfPage ==
    /\ []PlacedInOrder
    /\ [][/\ (spc = "chunk" /\ chunk_i' = chunk_i + 1) => BodyRule(FragmentAtHand)
          /\ (spc = "page" /\ spc' = "chunk") => locals.page_content' = <<>>]_vars

\* C23's case: the run read a source of two pages whose first page stores a
\* body envelope before a heading envelope, and emitted the heading, then
\* the body of that page, then the second page
C23_HeadingStoredAfterBody ==
    /\ ReadAll
    /\ Len(json_file.pages) = 2
    /\ json_file.pages[1].page_number < json_file.pages[2].page_number
    /\ Len(json_file.pages[1].deepseek_output) = 2
    /\ IsBodyFragment(ExtractContent(json_file.pages[1].deepseek_output[1]).val)
    /\ IsHeading(ExtractContent(json_file.pages[1].deepseek_output[2]).val)
    /\ Len(locals.origin) = 3
    /\ locals.origin[1] = [kind |-> "heading", idx |-> 1, page_number |-> 1]
    /\ locals.origin[2] = [kind |-> "body", idx |-> 1, page_number |-> 1]
    /\ locals.origin[3].idx = 2

----------------------------------------------------------------------------
(* How process_pdf ends.                                                   *)

\* the step with which process_pdf ends
ProcessPdfEnds == call.pc # "return" /\ call.pc' = "return"

\* C24: every call of process_pdf on an existing book ends with the status
\* completed or failed; it returns True exactly when the status is
\* completed, and then text_path names an existing text file and word_count
\* is the number of its whitespace-delimited tokens.
C24_EndsCompletedOrFailed ==
    [][ProcessPdfEnds =>
          /\ book'.processing_status \in {"completed", "failed"}
          /\ call'.result <=> book'.processing_status = "completed"
          /\ call'.result =>
                /\ book'.text_path = "artifact"
                /\ artifact'.exists
                /\ book'.word_count = WordCount(artifact'.content)]_vars

\* C24's case: process_pdf, entered again from get_book_content, is about to
\* return True after the stitcher wrote a text of several words
C24_CompletedWithWords ==
    /\ call.pc = "return" /\ call.result /\ call.stitched
    /\ call.by = "get_book_content"
    /\ book.word_count >= 2

----------------------------------------------------------------------------
(* chunk_text, src/pdf_processor.py:92-115.                                *)

\* the most pieces a text of ChunkTexts is built from
MaxChunkAtoms == 3

\* the largest max_chunk_size
MaxChunkSize == 4

\* words of one, two and six characters, and white space
ChunkAtoms ==
    { <<"c">>, <<"a","b">>, <<"a","b","c","d","e","f">>, <<" ">>, <<NL>> }

ChunkTexts == {Flatten(b) : b \in SeqsUpTo(ChunkAtoms, MaxChunkAtoms)}

ChunkTextInit ==
    /\ chunker \in {[NoChunker EXCEPT !.pc = "ready", !.text = t,
                                      !.max_chunk_size = m] :
                        t \in ChunkTexts, m \in 1..MaxChunkSize}
    /\ parked = NoCall /\ other = NoOther /\ defaults = NoDefaults
    /\ earlier = <<>> /\ batch = NoBatch
    /\ CleanIdle /\ ExtractIdle /\ StitchIdle /\ AppIdle

\* line 96-99: words = text.split() and the empty locals
ChunkTextCall ==
    /\ chunker.pc = "ready"
    /\ chunker' = [chunker EXCEPT !.pc = "loop", !.words = Words(chunker.text),
                                  !.i = 1, !.chunks = <<>>,
                                  !.current_chunk = <<>>, !.current_size = 0]
    /\ UNCHANGED <<parked, other, defaults, earlier, batch>>
    /\ UNCHANGED <<cleanVars, extractVars, stitchVars, appVars>>

\* line 102-109: what one pass of the loop does for word
TakeWord(c, word) ==
    IF c.current_size + (Len(word) + 1) > c.max_chunk_size
    THEN [c EXCEPT !.chunks = Append(@, Join(c.current_chunk, <<" ">>)),
                   !.current_chunk = <<word>>,
                   !.current_size = Len(word) + 1]
    ELSE [c EXCEPT !.current_chunk = Append(@, word),
                   !.current_size = @ + Len(word) + 1]

\* line 101-109: one word of the loop
ChunkTextWord ==
    /\ chunker.pc = "loop" /\ chunker.i <= Len(chunker.words)
    /\ chunker' = [TakeWord(chunker, chunker.words[chunker.i]) EXCEPT !.i = @ + 1]
    /\ UNCHANGED <<parked, other, defaults, earlier, batch>>
    /\ UNCHANGED <<cleanVars, extractVars, stitchVars, appVars>>

\* line 111-115: the last chunk and the return
ChunkTextReturn ==
    /\ chunker.pc = "loop" /\ chunker.i > Len(chunker.words)
    /\ chunker' = [chunker EXCEPT
                      !.pc = "done",
                      !.chunks = IF chunker.current_chunk # <<>>
                                 THEN Append(@, Join(chunker.current_chunk, <<" ">>))
                                 ELSE @]
    /\ UNCHANGED <<parked, other, defaults, earlier, batch>>
    /\ UNCHANGED <<cleanVars, extractVars, stitchVars, appVars>>

ChunkTextNext == ChunkTextCall \/ ChunkTextWord \/ ChunkTextReturn

SpecChunkText == ChunkTextInit /\ [][ChunkTextNext]_vars

\* the words of the chunks, chunk after chunk
WordsOfChunks(chunks) == Flatten([k \in DOMAIN chunks |-> Words(chunks[k])])

\* C25: the words of the chunks chunk_text returns, in chunk order, are
\* text.split(), and every chunk holds at least one word, also when a word
\* is longer than max_chunk_size.
C25_ChunksPartitionWords ==
    chunker.pc = "done" =>
        /\ WordsOfChunks(chunker.chunks) = Words(chunker.text)
        /\ \A k \in DOMAIN chunker.chunks : Words(chunker.chunks[k]) # <<>>

=============================================================================
